---- MODULE Spec2Model ----
(***************************************************************************)
(* Model of cloud-cli's environment discovery and configuration            *)
(* reconciliation (src/src/config_loader): the persisted configuration     *)
(* store (config_persister.rs), the role config file parser                *)
(* (config_parser.rs), the process locator and mixed-deployment detector   *)
(* (process_detector.rs) and the reconciler load_config (mod.rs).          *)
(*                                                                         *)
(* Option<T> is modelled as a set: None is {} and Some(x) is {x}.          *)
(* A text (a config value, a line of command output) that the code parses  *)
(* is a tuple of one-character strings, so that parsing is computed.       *)
(***************************************************************************)
EXTENDS Integers, Sequences, FiniteSets, TLC

VARIABLES
    file,      \* ~/.config/cloud-cli/config.toml: [kind, doc]
    cfg,       \* the DorisConfig record returned by the last operation
    out,       \* what the last operation did: its name, result, warnings, ...
    live,      \* the running role processes, as detect_process_detailed sees them
    conf,      \* <install_dir>/conf/{fe,be}.conf of the detected role: lines or missing
    home_dir,  \* whether dirs::home_dir() yields a directory
    changes,   \* how many times the live environment has changed
    cmds,      \* process locator: the outcome of each shell command it runs
    ran,       \* process locator: the listing commands run so far, in order
    pc,        \* process locator: position in get_pid_by_env(FE)'s loop
    found,     \* process locator: the result of get_pid_by_env(FE)
    content,   \* config parser: the text of the role config file given to the parser
    penv,      \* config parser: the role whose file is parsed
    bg,        \* the background cluster-info thread: its position, snapshot and counters
    pool       \* the table-info worker pool of collect_many: counters, slots, workers

vars ==
    <<file, cfg, out, live, conf, home_dir, changes, cmds, ran, pc, found, content, penv, bg,
      pool>>

None == {}
Some(x) == {x}
IsSome(o) == o # {}
Get(o) == CHOOSE x \in o : TRUE

(* ----------------------------- bounds ---------------------------------- *)
MaxPid == 1
MaxClock == 1
MaxChanges == 1
MaxLines == 2

\* the pids a role's process can get: Frontend 1..MaxPid, Backend above them
Pids(r) == IF r = "FE" THEN 1..MaxPid ELSE (MaxPid + 1)..(2 * MaxPid)
\* the instants chrono::Utc::now() can return
Times == 0..MaxClock
Roles == {"FE", "BE"}

(* ------------------------ DorisConfig (mod.rs) -------------------------- *)
DefaultConfig ==
    [ environment |-> "Unknown",
      install_dir |-> "/opt/selectdb",
      conf_dir |-> "/opt/selectdb/conf",
      log_dir |-> "/opt/selectdb/log",
      jdk_path |-> "/opt/jdk",
      output_dir |-> "/opt/selectdb/information",
      timeout_seconds |-> 60,
      no_progress_animation |-> FALSE,
      process_pid |-> None,
      process_command |-> None,
      last_detected |-> None,
      be_port |-> None,
      brpc_port |-> None,
      heartbeat_service_port |-> None,
      webserver_port |-> None,
      be_process_pid |-> None,
      be_process_command |-> None,
      be_install_dir |-> None,
      http_port |-> None,
      rpc_port |-> None,
      query_port |-> None,
      edit_log_port |-> None,
      cloud_http_port |-> None,
      meta_dir |-> None,
      fe_process_pid |-> None,
      fe_process_command |-> None,
      fe_install_dir |-> None,
      priority_networks |-> None,
      meta_service_endpoint |-> None,
      mysql |-> None ]

FePortFields == {"http_port", "rpc_port", "query_port", "edit_log_port", "cloud_http_port"}
BePortFields == {"be_port", "brpc_port", "heartbeat_service_port", "webserver_port"}
ProcessFields ==
    {"process_pid", "process_command", "last_detected",
     "fe_process_pid", "fe_process_command", "fe_install_dir",
     "be_process_pid", "be_process_command", "be_install_dir"}

\* PathBuf::join
Join(dir, name) == dir \o "/" \o name

\* chrono: DateTime::to_rfc3339 and DateTime::parse_from_rfc3339
ToRfc3339(t) == <<"rfc3339", t>>
ParseRfc3339(s) == IF Len(s) = 2 /\ s[1] = "rfc3339" THEN Some(s[2]) ELSE None

\* F applied to the value of e, with e evaluated once
Bind(e, F(_)) == CHOOSE y \in {F(x) : x \in {e}} : TRUE

\* Option::map over the set encoding
MapOpt(o, F(_)) == {F(x) : x \in o}
AndThenOpt(o, F(_)) == UNION {F(x) : x \in o}

(* ------------- the persisted file (config_persister.rs) ---------------- *)
(* A TOML document is a record of optional sections; a section the text    *)
(* does not hold is None, and so is a key a section does not hold. serde   *)
(* ignores sections and keys a struct does not declare.                    *)

EmptyDoc ==
    [ metadata |-> None, paths |-> None, ports |-> None, fe |-> None, be |-> None,
      network |-> None, settings |-> None, process |-> None, mysql |-> None ]

AbsentFile == [kind |-> "absent", doc |-> EmptyDoc]
UnreadableFile(d) == [kind |-> "unreadable", doc |-> d]
TextFile(d) == [kind |-> "text", doc |-> d]

\* impl ConfigConverter<Metadata> for DorisConfig
EnvToStr(e) ==
    CASE e = "FE" -> "FE"
      [] e = "BE" -> "BE"
      [] e = "Mixed" -> "FE + BE"
      [] OTHER -> "Unknown"

\* the match on metadata.environment of every from_* conversion
EnvFromStr(s) ==
    CASE s = "FE" -> "FE"
      [] s = "BE" -> "BE"
      [] s = "FE + BE" -> "Mixed"
      [] OTHER -> "Unknown"

CargoPkgVersion == "0.1.0"

MetadataOf(c) == [environment |-> EnvToStr(c.environment), version |-> CargoPkgVersion]

\* impl ConfigConverter<Paths> for DorisConfig, and struct CommonPaths
CommonPathsOf(c) ==
    [ install_dir |-> None, conf_dir |-> None, log_dir |-> None,
      jdk_path |-> Some(c.jdk_path), output_dir |-> Some(c.output_dir), meta_dir |-> None ]

NetworkOf(c) ==
    [ priority_networks |-> c.priority_networks,
      meta_service_endpoint |-> c.meta_service_endpoint ]

SettingsOf(c) ==
    [ timeout_seconds |-> c.timeout_seconds,
      no_progress_animation |-> c.no_progress_animation ]

ProcessInfoOf(c) ==
    [ pid |-> c.process_pid,
      command |-> c.process_command,
      last_detected |-> MapOpt(c.last_detected, ToRfc3339),
      be_process_pid |-> c.be_process_pid,
      be_process_command |-> c.be_process_command,
      be_install_dir |-> c.be_install_dir,
      fe_process_pid |-> c.fe_process_pid,
      fe_process_command |-> c.fe_process_command,
      fe_install_dir |-> c.fe_install_dir ]

EmptyProcessInfo ==
    [ pid |-> None, command |-> None, last_detected |-> None,
      be_process_pid |-> None, be_process_command |-> None, be_install_dir |-> None,
      fe_process_pid |-> None, fe_process_command |-> None, fe_install_dir |-> None ]

EmptyPorts ==
    [ be_port |-> None, brpc_port |-> None, heartbeat_service_port |-> None,
      webserver_port |-> None, http_port |-> None, rpc_port |-> None,
      query_port |-> None, edit_log_port |-> None, cloud_http_port |-> None ]

\* to_organized_config, then toml::to_string_pretty
to_organized_config(c) ==
    LET withFe == c.environment = "FE" \/ c.environment = "Mixed"
        withBe == c.environment = "BE" \/ c.environment = "Mixed"
        feDir == IF IsSome(c.fe_install_dir) THEN Get(c.fe_install_dir) ELSE c.install_dir
        beDir == IF IsSome(c.be_install_dir) THEN Get(c.be_install_dir) ELSE c.install_dir
        feSec ==
            [ install_dir |-> feDir,
              conf_dir |-> Join(feDir, "conf"),
              log_dir |-> Join(feDir, "log"),
              meta_dir |-> c.meta_dir,
              ports |-> [ http_port |-> c.http_port, rpc_port |-> c.rpc_port,
                          query_port |-> c.query_port, edit_log_port |-> c.edit_log_port,
                          cloud_http_port |-> c.cloud_http_port ],
              process_pid |-> IF c.environment = "FE" THEN c.process_pid
                              ELSE c.fe_process_pid,
              process_command |-> IF c.environment = "FE" THEN c.process_command
                                  ELSE c.fe_process_command ]
        beSec ==
            [ install_dir |-> beDir,
              conf_dir |-> Join(beDir, "conf"),
              log_dir |-> Join(beDir, "log"),
              ports |-> [ be_port |-> c.be_port, brpc_port |-> c.brpc_port,
                          heartbeat_service_port |-> c.heartbeat_service_port,
                          webserver_port |-> c.webserver_port ],
              process_pid |-> IF c.environment = "BE" THEN c.process_pid
                              ELSE c.be_process_pid,
              process_command |-> IF c.environment = "BE" THEN c.process_command
                                  ELSE c.be_process_command ]
    IN  [ metadata |-> Some(MetadataOf(c)),
          paths |-> Some(CommonPathsOf(c)),
          ports |-> None,
          fe |-> IF withFe THEN Some(feSec) ELSE None,
          be |-> IF withBe THEN Some(beSec) ELSE None,
          network |-> Some(NetworkOf(c)),
          settings |-> Some(SettingsOf(c)),
          process |-> Some(ProcessInfoOf(c)),
          mysql |-> c.mysql ]

\* toml::from_str::<T>: which sections and keys each struct requires
HasCommonPaths(d) ==
    /\ IsSome(d.paths)
    /\ IsSome(Get(d.paths).jdk_path)
    /\ IsSome(Get(d.paths).output_dir)

HasFullPaths(d) ==
    /\ HasCommonPaths(d)
    /\ IsSome(Get(d.paths).install_dir)
    /\ IsSome(Get(d.paths).conf_dir)
    /\ IsSome(Get(d.paths).log_dir)

ParsesAsLegacyWithMySQL(d) ==
    /\ IsSome(d.metadata) /\ HasCommonPaths(d) /\ IsSome(d.network)
    /\ IsSome(d.settings) /\ IsSome(d.process)

ParsesAsOrganized(d) ==
    /\ IsSome(d.metadata) /\ HasCommonPaths(d) /\ IsSome(d.network)
    /\ IsSome(d.settings) /\ IsSome(d.process)

\* struct LegacyConfig of migrate_legacy_config
ParsesAsLegacy(d) ==
    /\ IsSome(d.metadata) /\ HasFullPaths(d) /\ IsSome(d.ports)
    /\ IsSome(d.network) /\ IsSome(d.settings)

\* toml::from_str::<PersistentConfig>: "ok", or the error; serde reports the
\* first missing field in declaration order: metadata, paths, ports, network,
\* settings, process
ParseAsPersistent(d) ==
    CASE ~IsSome(d.metadata) -> "missing field metadata"
      [] ~IsSome(d.paths) -> "missing field paths"
      [] ~HasFullPaths(d) -> "missing field install_dir"
      [] ~IsSome(d.ports) -> "missing field ports"
      [] ~IsSome(d.network) -> "missing field network"
      [] ~IsSome(d.settings) -> "missing field settings"
      [] ~IsSome(d.process) -> "missing field process"
      [] OTHER -> "ok"

ProcessFieldsFrom(p) ==
    [ process_pid |-> p.pid,
      process_command |-> p.command,
      last_detected |-> AndThenOpt(p.last_detected, ParseRfc3339),
      be_process_pid |-> p.be_process_pid,
      be_process_command |-> p.be_process_command,
      be_install_dir |-> p.be_install_dir,
      fe_process_pid |-> p.fe_process_pid,
      fe_process_command |-> p.fe_process_command,
      fe_install_dir |-> p.fe_install_dir ]

\* record c with the fields of record r overwritten
Overwrite(c, r) == [f \in DOMAIN c |-> IF f \in DOMAIN r THEN r[f] ELSE c[f]]

\* parse_legacy_config_with_mysql, on a document it parses
parse_legacy_config_with_mysql(d) ==
    Overwrite(
      Overwrite(DefaultConfig, ProcessFieldsFrom(Get(d.process))),
      [ environment |-> EnvFromStr(Get(d.metadata).environment),
        install_dir |-> "/opt/selectdb",
        conf_dir |-> "/opt/selectdb/conf",
        log_dir |-> "/opt/selectdb/log",
        jdk_path |-> Get(Get(d.paths).jdk_path),
        output_dir |-> Get(Get(d.paths).output_dir),
        timeout_seconds |-> Get(d.settings).timeout_seconds,
        no_progress_animation |-> Get(d.settings).no_progress_animation,
        priority_networks |-> Get(d.network).priority_networks,
        meta_service_endpoint |-> Get(d.network).meta_service_endpoint,
        mysql |-> d.mysql ])

\* from_organized_config
from_organized_config(d) ==
    LET environment == EnvFromStr(Get(d.metadata).environment)
        p == Get(d.process)
        base ==
            Overwrite(DefaultConfig,
              [ environment |-> environment,
                install_dir |-> "", conf_dir |-> "", log_dir |-> "",
                jdk_path |-> Get(Get(d.paths).jdk_path),
                output_dir |-> Get(Get(d.paths).output_dir),
                timeout_seconds |-> Get(d.settings).timeout_seconds,
                no_progress_animation |-> Get(d.settings).no_progress_animation,
                priority_networks |-> Get(d.network).priority_networks,
                meta_service_endpoint |-> Get(d.network).meta_service_endpoint,
                process_pid |-> p.pid,
                process_command |-> p.command,
                last_detected |-> AndThenOpt(p.last_detected, ParseRfc3339),
                mysql |-> d.mysql ])
        withBe ==
            IF IsSome(d.be)
            THEN LET be == Get(d.be)
                     c1 == Overwrite(base,
                             [ be_port |-> be.ports.be_port,
                               brpc_port |-> be.ports.brpc_port,
                               heartbeat_service_port |-> be.ports.heartbeat_service_port,
                               webserver_port |-> be.ports.webserver_port,
                               be_process_pid |-> be.process_pid,
                               be_process_command |-> be.process_command,
                               be_install_dir |-> Some(be.install_dir) ])
                 IN  IF environment = "BE"
                     THEN Overwrite(c1, [ install_dir |-> be.install_dir,
                                          conf_dir |-> be.conf_dir,
                                          log_dir |-> be.log_dir ])
                     ELSE c1
            ELSE base
        withFe ==
            IF IsSome(d.fe)
            THEN LET fe == Get(d.fe)
                     c1 == Overwrite(withBe,
                             [ http_port |-> fe.ports.http_port,
                               rpc_port |-> fe.ports.rpc_port,
                               query_port |-> fe.ports.query_port,
                               edit_log_port |-> fe.ports.edit_log_port,
                               cloud_http_port |-> fe.ports.cloud_http_port,
                               meta_dir |-> fe.meta_dir,
                               fe_process_pid |-> fe.process_pid,
                               fe_process_command |-> fe.process_command,
                               fe_install_dir |-> Some(fe.install_dir) ])
                 IN  IF environment = "FE"
                     THEN Overwrite(c1, [ install_dir |-> fe.install_dir,
                                          conf_dir |-> fe.conf_dir,
                                          log_dir |-> fe.log_dir ])
                     ELSE c1
            ELSE withBe
    IN  IF environment = "Mixed"
        THEN IF IsSome(d.be)
             THEN Overwrite(withFe, [ install_dir |-> Get(d.be).install_dir,
                                      conf_dir |-> Get(d.be).conf_dir,
                                      log_dir |-> Get(d.be).log_dir ])
             ELSE IF IsSome(d.fe)
             THEN Overwrite(withFe, [ install_dir |-> Get(d.fe).install_dir,
                                      conf_dir |-> Get(d.fe).conf_dir,
                                      log_dir |-> Get(d.fe).log_dir ])
             ELSE withFe
        ELSE withFe

\* from_persistent_config, and impl ConfigConverter<DorisConfig> for PersistentConfig
from_persistent_config(d) ==
    LET paths == Get(d.paths)
        ports == Get(d.ports)
    IN  Overwrite(
          Overwrite(DefaultConfig, ProcessFieldsFrom(Get(d.process))),
          [ environment |-> EnvFromStr(Get(d.metadata).environment),
            install_dir |-> Get(paths.install_dir),
            conf_dir |-> Get(paths.conf_dir),
            log_dir |-> Get(paths.log_dir),
            jdk_path |-> Get(paths.jdk_path),
            output_dir |-> Get(paths.output_dir),
            timeout_seconds |-> Get(d.settings).timeout_seconds,
            no_progress_animation |-> Get(d.settings).no_progress_animation,
            be_port |-> ports.be_port,
            brpc_port |-> ports.brpc_port,
            heartbeat_service_port |-> ports.heartbeat_service_port,
            webserver_port |-> ports.webserver_port,
            http_port |-> ports.http_port,
            rpc_port |-> ports.rpc_port,
            query_port |-> ports.query_port,
            edit_log_port |-> ports.edit_log_port,
            cloud_http_port |-> ports.cloud_http_port,
            meta_dir |-> paths.meta_dir,
            priority_networks |-> Get(d.network).priority_networks,
            meta_service_endpoint |-> Get(d.network).meta_service_endpoint,
            mysql |-> d.mysql ])

(* What the file system does to a write: io is one of                      *)
(*   "ok"            every step succeeds                                   *)
(*   "mkdir_fail"    the parent directory is missing and cannot be created *)
(*   "not_writable"  no file can be created in the parent directory        *)
(*   "create_fail"   the config file cannot be opened for writing          *)
(*   "write_fail"    the file is created (truncated) and the write fails   *)
IoOutcomes == {"ok", "mkdir_fail", "not_writable", "create_fail", "write_fail"}

\* fs::write(config_path, new_content) of migrate_legacy_config
FsWrite(f, d, io) ==
    CASE io \in {"ok", "not_writable"} -> [ok |-> TRUE, file |-> TextFile(d)]
      [] io = "write_fail" -> [ok |-> FALSE, file |-> TextFile(EmptyDoc)]
      [] OTHER -> [ok |-> FALSE, file |-> f]

\* migrate_legacy_config: the PersistentConfig it builds, writes and converts
MigratedDoc(d) ==
    [ metadata |-> d.metadata, paths |-> d.paths, ports |-> d.ports,
      fe |-> None, be |-> None,
      network |-> d.network, settings |-> d.settings,
      process |-> Some(EmptyProcessInfo), mysql |-> None ]

\* impl ConfigConverter<DorisConfig> for PersistentConfig: field for field the
\* conversion of from_persistent_config
convert_to(d) == from_persistent_config(d)

migrate_legacy_config(f, io) ==
    IF ParsesAsLegacy(f.doc)
    THEN Bind(FsWrite(f, MigratedDoc(f.doc), io), LAMBDA w :
           [ some |-> TRUE,
             cfg |-> convert_to(MigratedDoc(f.doc)),
             file |-> w.file,
             rewrote |-> w.ok,
             warns |-> IF w.ok THEN {} ELSE {"Failed to save migrated config"} ])
    ELSE [ some |-> FALSE, cfg |-> DefaultConfig, file |-> f,
           rewrote |-> FALSE, warns |-> {} ]

LoadResult(res, c, f, warns, decoder, rewrote) ==
    [ res |-> res, cfg |-> c, file |-> f, warns |-> warns,
      decoder |-> decoder, rewrote |-> rewrote ]

\* get_config_file_paths
get_config_file_paths(home) == IF home THEN "ok" ELSE "err"

\* a slip: an error noted on the way is returned instead of the default record
DefaultOnError_propagates(f, last_error) ==
    IF last_error = {}
    THEN LoadResult("ok", DefaultConfig, f, {}, "default", FALSE)
    ELSE LoadResult("err", DefaultConfig, f, {}, "none", FALSE)

\* load_persisted_config, the final match on last_error: warn and return the default
DefaultOnError(f, last_error) ==
    LoadResult("ok", DefaultConfig, f, last_error, "default", FALSE)

\* the parse ladder of load_persisted_config, on the text of a readable file
LoadLadder(f, io) ==
    LET d == f.doc
    IN  IF ParsesAsLegacyWithMySQL(d)
        THEN LoadResult("ok", parse_legacy_config_with_mysql(d), f, {},
                        "parse_legacy_config_with_mysql", FALSE)
        ELSE IF ParsesAsOrganized(d)
        THEN LoadResult("ok", from_organized_config(d), f, {},
                        "from_organized_config", FALSE)
        ELSE IF ParseAsPersistent(d) = "ok"
        THEN LoadResult("ok", from_persistent_config(d), f, {},
                        "from_persistent_config", FALSE)
        ELSE IF ParseAsPersistent(d) = "missing field process" /\ ParsesAsLegacy(d)
        THEN Bind(migrate_legacy_config(f, io), LAMBDA m :
               LoadResult("ok", m.cfg, m.file, m.warns, "migrate_legacy_config", m.rewrote))
        ELSE DefaultOnError(f, {"Failed to parse config file"})

\* load_persisted_config
load_persisted_config(f, home, io) ==
    IF get_config_file_paths(home) = "err"
    THEN LoadResult("err", DefaultConfig, f, {}, "none", FALSE)
    ELSE IF f.kind = "absent"
    THEN DefaultOnError(f, {})
    ELSE IF f.kind = "unreadable"
    THEN DefaultOnError(f, {"Failed to read config file"})
    ELSE LoadLadder(f, io)

\* persist_config: Success, AllFailed (both Ok) or Err
persist_config(c, f, home, io) ==
    IF get_config_file_paths(home) = "err"
    THEN [res |-> "Err", file |-> f]
    ELSE CASE io = "ok" -> [res |-> "Success", file |-> TextFile(to_organized_config(c))]
           [] io = "write_fail" -> [res |-> "AllFailed", file |-> TextFile(EmptyDoc)]
           [] OTHER -> [res |-> "AllFailed", file |-> f]

\* persist_configuration: warns on Err only
persist_configuration(c, f, home, io) ==
    Bind(persist_config(c, f, home, io), LAMBDA r :
      [ res |-> r.res, file |-> r.file,
        warns |-> IF r.res = "Err" THEN {"Failed to persist configuration"} ELSE {} ])

(* ---------------- role config file parser (config_parser.rs) ------------ *)
(* A line of fe.conf / be.conf is [kind, key, val]: kind "kv" is            *)
(* `key = val` (any whitespace around key, = and val), "comment" is the     *)
(* same text after a leading #, "blank" is an empty line. val is a tuple of *)
(* characters; "${DORIS_HOME}" counts as one character of it.               *)

Line(kind, key, val) == [kind |-> kind, key |-> key, val |-> val]

Digits == {"0", "1", "2", "3", "4", "5", "6", "7", "8", "9"}
DigitVal(ch) ==
    CASE ch = "0" -> 0 [] ch = "1" -> 1 [] ch = "2" -> 2 [] ch = "3" -> 3
      [] ch = "4" -> 4 [] ch = "5" -> 5 [] ch = "6" -> 6 [] ch = "7" -> 7
      [] ch = "8" -> 8 [] ch = "9" -> 9

U16Max == 65535

RECURSIVE DecimalValue(_)
DecimalValue(t) ==
    IF t = <<>> THEN 0
    ELSE 10 * DecimalValue(SubSeq(t, 1, Len(t) - 1)) + DigitVal(t[Len(t)])

\* a slip: a number above 65535 wraps around instead of failing to parse
ParseU16_wrapping(t) ==
    LET body == IF t # <<>> /\ t[1] = "+" THEN Tail(t) ELSE t
    IN  IF body # <<>> /\ (\A i \in 1..Len(body) : body[i] \in Digits)
        THEN Some(DecimalValue(body) % (U16Max + 1))
        ELSE None

\* str::parse::<u16>: an optional +, then one or more digits, at most 65535
ParseU16(t) ==
    LET body == IF t # <<>> /\ t[1] = "+" THEN Tail(t) ELSE t
    IN  IF body # <<>> /\ (\A i \in 1..Len(body) : body[i] \in Digits)
           /\ DecimalValue(body) <= U16Max
        THEN Some(DecimalValue(body))
        ELSE None

RECURSIVE Str(_)
\* the text of a tuple of characters
Str(t) == IF t = <<>> THEN "" ELSE t[1] \o Str(Tail(t))

RECURSIVE TrimQuotes(_)
\* str::trim_matches('"')
TrimQuotes(t) ==
    IF t # <<>> /\ t[1] = "\"" THEN TrimQuotes(Tail(t))
    ELSE IF t # <<>> /\ t[Len(t)] = "\"" THEN TrimQuotes(SubSeq(t, 1, Len(t) - 1))
    ELSE t

\* regex_utils::extract_key_value: ^\s*key\s*=\s*(.*?)\s*$, trimmed of quotes
extract_key_value(line, key) ==
    IF line.kind = "kv" /\ line.key = key THEN Some(TrimQuotes(line.val)) ELSE None

\* regex_utils::extract_value_from_line: any key
extract_value(line) ==
    IF line.kind = "kv" THEN Some(TrimQuotes(line.val)) ELSE None

\* a slip: a key the line does not assign gets the default number
parse_key_value_u16_or_default(line, key, old) ==
    Bind(AndThenOpt(extract_key_value(line, key), ParseU16), LAMBDA v :
      IF IsSome(v) THEN v ELSE Some(0))

\* parse_key_value::<u16>: the field is assigned only when the value parses
parse_key_value_u16(line, key, old) ==
    Bind(AndThenOpt(extract_key_value(line, key), ParseU16), LAMBDA v :
      IF IsSome(v) THEN v ELSE old)

\* parse_key_value::<String>
parse_key_value_string(line, key, old) ==
    Bind(MapOpt(extract_key_value(line, key), Str), LAMBDA v :
      IF IsSome(v) THEN v ELSE old)

\* parse_path_key_value
parse_path_key_value(line, key, old) ==
    Bind(MapOpt(extract_key_value(line, key), Str), LAMBDA v :
      IF IsSome(v) THEN v ELSE old)

\* get_env_config_items
get_env_config_items(env) ==
    CASE env = "BE" -> BePortFields
      [] env = "FE" -> FePortFields
      [] OTHER -> {}

\* get_env_path_config_items
get_env_path_config_items(env) == IF env = "FE" THEN {"meta_dir"} ELSE {}

\* get_common_config_items
get_common_config_items == {"priority_networks", "meta_service_endpoint"}

\* str::starts_with(LOG_DIR_KEY), on the keys the model's files use
StartsWithLogDir(key) == key \in {"LOG_DIR", "LOG_DIR_MAX"}

DorisHomeToken == "${DORIS_HOME}"

\* str::replace("${DORIS_HOME}", install)
ReplaceDorisHome(t, install) ==
    [i \in 1..Len(t) |-> IF t[i] = DorisHomeToken THEN install ELSE t[i]]

\* the value of config.log_dir after the LOG_DIR branch of parse_config_content
LogDirAfter(line, old, install_dir) ==
    IF line.kind = "kv" /\ StartsWithLogDir(line.key)
    THEN Bind(Get(extract_value(line)), LAMBDA v :
           IF IsSome(install_dir) /\ (\E i \in 1..Len(v) : v[i] = DorisHomeToken)
           THEN Str(ReplaceDorisHome(v, Get(install_dir)))
           ELSE Str(v))
    ELSE old

\* one iteration of the loop of parse_config_content
ParseLine(env, line, c, install_dir) ==
    IF line.kind # "kv"
    THEN c
    ELSE [f \in DOMAIN c |->
            IF f = "log_dir" THEN LogDirAfter(line, c.log_dir, install_dir)
            ELSE IF f \in get_env_config_items(env) THEN parse_key_value_u16(line, f, c[f])
            ELSE IF f \in get_env_path_config_items(env)
                 THEN parse_path_key_value(line, f, c[f])
            ELSE IF f \in get_common_config_items THEN parse_key_value_string(line, f, c[f])
            ELSE c[f]]

RECURSIVE parse_config_content(_, _, _, _)
parse_config_content(env, lines, c, install_dir) ==
    IF lines = <<>> THEN c
    ELSE parse_config_content(env, Tail(lines),
                              ParseLine(env, Head(lines), c, install_dir), install_dir)

\* a role config file: missing, unreadable, or its lines
MissingConf == [state |-> "missing", lines |-> <<>>]
UnreadableConf == [state |-> "unreadable", lines |-> <<>>]
ConfOf(lines) == [state |-> "ok", lines |-> lines]

\* parse_config_internal: Err when the file is missing or cannot be read
parse_config_internal(env, install_dir, jdk_path, cf) ==
    IF env \notin Roles \/ cf.state # "ok"
    THEN [ok |-> FALSE, cfg |-> DefaultConfig]
    ELSE [ok |-> TRUE,
          cfg |-> parse_config_content(env, cf.lines,
                    Overwrite(DefaultConfig,
                      [ environment |-> env,
                        install_dir |-> install_dir,
                        conf_dir |-> Join(install_dir, "conf"),
                        jdk_path |-> jdk_path ]),
                    IF env = "BE" THEN Some(install_dir) ELSE None)]

\* parse_config_from_path
parse_config_from_path(env, install_dir, cf) ==
    parse_config_internal(env, install_dir, "/opt/jdk", cf)

(* --------------- process detection (process_detector.rs) ---------------- *)
(* live[role] is the ProcessDetectionResult detect_process_detailed(role)   *)
(* returns, or None when it returns ProcessNotFound.                        *)

Proc(pid, env, home, java) ==
    [ pid |-> pid, command |-> "doris_" \o env, environment |-> env,
      doris_home |-> home, java_home |-> java ]

\* a slip: the Frontend is looked for, and listed, before the Backend
detect_all_processes_fe_first(l) ==
    (IF IsSome(l["FE"]) THEN <<Get(l["FE"])>> ELSE <<>>)
      \o (IF IsSome(l["BE"]) THEN <<Get(l["BE"])>> ELSE <<>>)

\* detect_all_processes: Backend first, then Frontend
detect_all_processes(l) ==
    (IF IsSome(l["BE"]) THEN <<Get(l["BE"])>> ELSE <<>>)
      \o (IF IsSome(l["FE"]) THEN <<Get(l["FE"])>> ELSE <<>>)

\* detect_current_process: the first of them, None for ProcessNotFound
detect_current_process(l) ==
    IF detect_all_processes(l) = <<>> THEN None ELSE Some(detect_all_processes(l)[1])

\* detect_environment
detect_environment(l) ==
    IF IsSome(detect_current_process(l))
    THEN Get(detect_current_process(l)).environment
    ELSE "Unknown"

\* is_process_alive / DorisConfig::is_process_valid: kill -0 <pid>, with kill(1)
\* at hand as load_config finds it
AlivePids(l) == {Get(l[r]).pid : r \in {x \in Roles : IsSome(l[x])}}
is_process_valid(c, l) == IsSome(c.process_pid) /\ Get(c.process_pid) \in AlivePids(l)

\* Command::new("kill").args(["-0", pid]).output(): Err when kill(1) cannot be
\* run, else the exit status, success when the pid names a running process
KillProbe(pid, l, spawned) ==
    IF ~spawned THEN "err"
    ELSE IF pid \in AlivePids(l) THEN "success" ELSE "failure"

\* DorisConfig::is_process_valid, the outcome of spawning kill(1) an input:
\* .map(|output| output.status.success()).unwrap_or(false)
is_process_valid_probe(c, l, spawned) ==
    IsSome(c.process_pid) /\ KillProbe(Get(c.process_pid), l, spawned) = "success"

\* a slip: the pid of the record is returned without the probe
get_valid_pid_unprobed(c, l, spawned) == c.process_pid

\* DorisConfig::get_valid_pid: self.process_pid.filter(|_| self.is_process_valid())
get_valid_pid(c, l, spawned) ==
    {p \in c.process_pid : is_process_valid_probe(c, l, spawned)}

(* The output of a listing command is "err" when execute_command fails, or   *)
(* the trimmed text as a tuple of lines, a line being a tuple of             *)
(* whitespace-separated words and a word a tuple of characters.              *)

\* the three listing commands of get_pid_by_env(FE), in the order of the array
FeCommands == <<"jps", "ps DorisFE", "ps fe java">>

\* the length of the longest prefix of digits of a word
RECURSIVE DigitPrefix(_)
DigitPrefix(w) ==
    IF w # <<>> /\ w[1] \in Digits THEN 1 + DigitPrefix(Tail(w)) ELSE 0

\* str::parse::<u32> of the digits a (\d+) group captured: up to nine digits
\* always fit, and ten or more are taken to overflow
ParseU32(w) == IF Len(w) < 10 THEN Some(DecimalValue(w)) ELSE None

\* the regex of the loop body on a line: ^(\d+)\s+DorisFE for jps, ^\S+\s+(\d+)
\* for the ps listings; the captured digits, None without a match
CapturePid(cmd, line) ==
    IF cmd = "jps"
    THEN IF Len(line) >= 2 /\ line[1] # <<>> /\ DigitPrefix(line[1]) = Len(line[1])
            /\ Len(line[2]) >= 7 /\ Str(SubSeq(line[2], 1, 7)) = "DorisFE"
         THEN Some(line[1]) ELSE None
    ELSE IF Len(line) >= 2 /\ DigitPrefix(line[2]) > 0
         THEN Some(SubSeq(line[2], 1, DigitPrefix(line[2]))) ELSE None

\* regex_utils::extract_pid_from_output. With first_only the first line decides;
\* without it the first line whose user column starts with $USER and whose pid
\* parses does, and the first line when there is none. $USER is root here.
extract_pid_from_output(cmd, lines, first_only) ==
    LET current_user == <<"r", "o", "o", "t">>
        Digits2(line) == SubSeq(line[2], 1, DigitPrefix(line[2]))
        OfUser(line) ==
            /\ Len(line) >= 2 /\ DigitPrefix(line[2]) > 0
            /\ Len(line[1]) >= Len(current_user)
            /\ SubSeq(line[1], 1, Len(current_user)) = current_user
            /\ IsSome(ParseU32(Digits2(line)))
        mine == {i \in 1..Len(lines) : OfUser(lines[i])}
    IN  IF lines = <<>> THEN None
        ELSE IF ~first_only /\ mine # {}
        THEN ParseU32(Digits2(lines[CHOOSE i \in mine : \A j \in mine : i <= j]))
        ELSE AndThenOpt(CapturePid(cmd, lines[1]), ParseU32)

\* a slip: every listing is read with the pattern of the jps listing
TryCommand_jps_pattern(cmd, o) ==
    IF o = "err" \/ o = <<>> THEN None ELSE extract_pid_from_output("jps", o, TRUE)

\* one pass of the loop of get_pid_by_env(FE): the pid command cmd yields, None
\* when the loop goes on to the next command
TryCommand(cmd, o) ==
    IF o = "err" \/ o = <<>> THEN None ELSE extract_pid_from_output(cmd, o, TRUE)

(* /proc/<pid>/environ is [ok, lines]: ok is whether the file exists and can  *)
(* be read, lines its KEY=VALUE entries after the NUL-to-newline translation, *)
(* each a record [key, val].                                                  *)

\* regex_utils::extract_env_var: the regex ^KEY=([^\n]+) is compiled without
\* the multi-line flag, so ^ is the start of the text, not of a line
extract_env_var(environ_output, key) ==
    IF environ_output # <<>> /\ environ_output[1].key = key /\ environ_output[1].val # ""
    THEN Some(environ_output[1].val)
    ELSE None

\* get_paths_by_pid_with_fallback: (doris_home, java_home). cmd_home is the
\* install directory the command line of the process gives away, if any
get_paths_by_pid_with_fallback(env, environ, cmd_home) ==
    LET Grepped(line) == line.key \in {"DORIS_HOME", "JAVA_HOME", "HOME"}
        \* read_proc_environ_by_pid: cat | tr | grep -E DORIS|BE|FE|HOME|JAVA_HOME
        read_proc_environ_by_pid ==
            IF environ.ok THEN Some(SelectSeq(environ.lines, Grepped)) ELSE None
        from_environ ==
            {[ doris_home |-> Get(extract_env_var(e, "DORIS_HOME")),
               java_home |-> IF IsSome(extract_env_var(e, "JAVA_HOME"))
                             THEN Get(extract_env_var(e, "JAVA_HOME")) ELSE "/opt/jdk" ] :
               e \in {x \in read_proc_environ_by_pid :
                         IsSome(extract_env_var(x, "DORIS_HOME"))}}
    IN  IF from_environ # {} THEN Get(from_environ)
        ELSE IF env \in Roles /\ IsSome(cmd_home)
        THEN [doris_home |-> Get(cmd_home), java_home |-> "/opt/jdk"]
        ELSE [doris_home |-> "/opt/selectdb", java_home |-> "/opt/jdk"]

\* get_pid_by_env: listings[1..3] are what the three Frontend commands print,
\* listings[4] what the Backend command does; None is Err(ProcessNotFound)
get_pid_by_env(env, listings) ==
    IF env = "BE"
    THEN IF listings[4] = "err" \/ listings[4] = <<>> THEN None
         ELSE extract_pid_from_output("ps doris_be", listings[4], FALSE)
    ELSE IF IsSome(TryCommand(FeCommands[1], listings[1]))
         THEN TryCommand(FeCommands[1], listings[1])
         ELSE IF IsSome(TryCommand(FeCommands[2], listings[2]))
         THEN TryCommand(FeCommands[2], listings[2])
         ELSE TryCommand(FeCommands[3], listings[3])

\* the Frontend half of detect_mixed_deployment
MixedFe(c, p, cf) ==
    LET c1 == Overwrite(c, [ fe_process_pid |-> Some(p.pid),
                             fe_process_command |-> Some(p.command),
                             fe_install_dir |-> Some(p.doris_home) ])
    IN  IF c.environment # "FE"
        THEN Bind(parse_config_from_path("FE", p.doris_home, cf), LAMBDA parsed :
               IF parsed.ok
               THEN Overwrite(c1, [ http_port |-> parsed.cfg.http_port,
                                    rpc_port |-> parsed.cfg.rpc_port,
                                    query_port |-> parsed.cfg.query_port,
                                    edit_log_port |-> parsed.cfg.edit_log_port,
                                    cloud_http_port |-> parsed.cfg.cloud_http_port,
                                    meta_dir |-> parsed.cfg.meta_dir ])
               ELSE c1)
        ELSE c1

\* a slip: the Backend ports are overwritten whatever the record's environment
MixedBe_any_environment(c, p, cf) ==
    Bind(parse_config_from_path("BE", p.doris_home, cf), LAMBDA parsed :
      Overwrite(c, [ be_process_pid |-> Some(p.pid),
                     be_process_command |-> Some(p.command),
                     be_install_dir |-> Some(p.doris_home),
                     be_port |-> parsed.cfg.be_port,
                     brpc_port |-> parsed.cfg.brpc_port,
                     webserver_port |-> parsed.cfg.webserver_port,
                     heartbeat_service_port |-> parsed.cfg.heartbeat_service_port ]))

\* the Backend half of detect_mixed_deployment
MixedBe(c, p, cf) ==
    LET c1 == Overwrite(c, [ be_process_pid |-> Some(p.pid),
                             be_process_command |-> Some(p.command),
                             be_install_dir |-> Some(p.doris_home) ])
    IN  IF c.environment # "BE"
        THEN Bind(parse_config_from_path("BE", p.doris_home, cf), LAMBDA parsed :
               IF parsed.ok
               THEN Overwrite(c1, [ be_port |-> parsed.cfg.be_port,
                                    brpc_port |-> parsed.cfg.brpc_port,
                                    webserver_port |-> parsed.cfg.webserver_port,
                                    heartbeat_service_port |->
                                        parsed.cfg.heartbeat_service_port ])
               ELSE c1)
        ELSE c1

\* a slip: the bookkeeping of a role is filled in as soon as that role is found
detect_mixed_deployment_either_role(c, l, cfs) ==
    IF detect_all_processes(l) = <<>>
    THEN [res |-> "err", is_mixed |-> FALSE, cfg |-> c]
    ELSE [res |-> "ok", is_mixed |-> IsSome(l["FE"]) /\ IsSome(l["BE"]),
          cfg |-> Bind(IF IsSome(l["FE"]) THEN MixedFe(c, Get(l["FE"]), cfs["FE"]) ELSE c,
                       LAMBDA c1 :
                    IF IsSome(l["BE"]) THEN MixedBe(c1, Get(l["BE"]), cfs["BE"]) ELSE c1)]

\* detect_mixed_deployment: Err when no process is found, else Ok(is_mixed)
detect_mixed_deployment(c, l, cfs) ==
    IF detect_all_processes(l) = <<>>
    THEN [res |-> "err", is_mixed |-> FALSE, cfg |-> c]
    ELSE IF IsSome(l["FE"]) /\ IsSome(l["BE"])
    THEN [res |-> "ok", is_mixed |-> TRUE,
          cfg |-> Bind(MixedFe(c, Get(l["FE"]), cfs["FE"]), LAMBDA c1 :
                    MixedBe(c1, Get(l["BE"]), cfs["BE"]))]
    ELSE [res |-> "ok", is_mixed |-> FALSE, cfg |-> c]

(* -------------------------- reconciler (mod.rs) ------------------------- *)

\* a slip: the pid is cleared and the rest of the bookkeeping forgotten
clean_process_info_pid_only(c) == Overwrite(c, [process_pid |-> None])

\* clean_process_info
clean_process_info(c) ==
    Overwrite(c, [ process_pid |-> None, process_command |-> None,
                   last_detected |-> None,
                   fe_process_pid |-> None, fe_process_command |-> None,
                   fe_install_dir |-> None,
                   be_process_pid |-> None, be_process_command |-> None,
                   be_install_dir |-> None ])

\* a slip: only the pid is compared
needs_config_update_pid_only(c, p, l) == c.process_pid # Some(p.pid)

\* needs_config_update
needs_config_update(c, p, l) ==
    \/ c.process_pid # Some(p.pid)
    \/ c.environment # p.environment
    \/ c.install_dir # p.doris_home
    \/ c.jdk_path # p.java_home
    \/ ~is_process_valid(c, l)

\* update_config_from_process
update_config_from_process(c, p, cfs, t) ==
    LET c1 == Overwrite(c, [ process_pid |-> Some(p.pid),
                             process_command |-> Some(p.command),
                             last_detected |-> Some(t),
                             environment |-> p.environment,
                             install_dir |-> p.doris_home,
                             jdk_path |-> p.java_home,
                             conf_dir |-> Join(p.doris_home, "conf"),
                             log_dir |-> Join(p.doris_home, "log") ])
    IN  Bind(parse_config_from_path(p.environment, p.doris_home, cfs[p.environment]),
             LAMBDA parsed :
          IF ~parsed.ok THEN c1
          ELSE IF p.environment = "BE"
          THEN Overwrite(c1, [ be_port |-> parsed.cfg.be_port,
                               brpc_port |-> parsed.cfg.brpc_port,
                               webserver_port |-> parsed.cfg.webserver_port,
                               heartbeat_service_port |-> parsed.cfg.heartbeat_service_port ])
          ELSE Overwrite(c1, [ http_port |-> parsed.cfg.http_port,
                               rpc_port |-> parsed.cfg.rpc_port,
                               query_port |-> parsed.cfg.query_port,
                               edit_log_port |-> parsed.cfg.edit_log_port,
                               cloud_http_port |-> parsed.cfg.cloud_http_port,
                               meta_dir |-> parsed.cfg.meta_dir ]))

\* parse_env_specific_config: parse_be_config / parse_fe_config read the paths
\* of the running process (get_paths) and fall back to the default record
parse_env_specific_config(env, l, cfs) ==
    IF env \in Roles /\ IsSome(l[env])
    THEN Bind(parse_config_internal(env, Get(l[env]).doris_home, Get(l[env]).java_home,
                                    cfs[env]),
              LAMBDA parsed : IF parsed.ok THEN parsed.cfg ELSE DefaultConfig)
    ELSE DefaultConfig

RunResult(res, c, f, warns, path, persisted) ==
    [ res |-> res, cfg |-> c, file |-> f, warns |-> warns,
      path |-> path, persisted |-> persisted ]

\* fallback_load_config
fallback_load_config(f, l, cfs, home, io, warns) ==
    Bind([parse_env_specific_config(detect_environment(l), l, cfs)
            EXCEPT !.environment = detect_environment(l)], LAMBDA c :
      Bind(persist_configuration(c, f, home, io), LAMBDA w :
        RunResult("ok", c, w.file, warns \cup w.warns, "fallback", <<w.res>>)))

\* a slip: the record is persisted before the mixed-deployment detector runs
UpdatePath_persists_before_mixed(lp, config, p, l, cfs, home, io, t) ==
    Bind(update_config_from_process(config, p, cfs, t), LAMBDA c1 :
      Bind(persist_configuration(c1, lp.file, home, io), LAMBDA w :
        RunResult("ok", detect_mixed_deployment(c1, l, cfs).cfg, w.file,
                  lp.warns \cup w.warns, "update", <<w.res>>)))

\* load_config, a process detected and needs_config_update: the update path
UpdatePath(lp, config, p, l, cfs, home, io, t) ==
    Bind(update_config_from_process(config, p, cfs, t), LAMBDA c1 :
      Bind(detect_mixed_deployment(c1, l, cfs).cfg, LAMBDA c2 :
        Bind(persist_configuration(c2, lp.file, home, io), LAMBDA w :
          RunResult("ok", c2, w.file, lp.warns \cup w.warns, "update", <<w.res>>))))

\* load_config, a process detected and no update needed: the keep path
KeepPath(lp, config, l, cfs) ==
    RunResult("ok", detect_mixed_deployment(config, l, cfs).cfg, lp.file,
              lp.warns, "keep", <<>>)

\* load_config, no process detected, the persisted pid set and dead
CleanPath(lp, config, l, cfs, home, io) ==
    Bind(clean_process_info(config), LAMBDA c1 :
      Bind(persist_configuration(c1, lp.file, home, io), LAMBDA w :
        IF c1.environment = "Unknown"
        THEN Bind(fallback_load_config(w.file, l, cfs, home, io, lp.warns \cup w.warns),
                  LAMBDA fb : [fb EXCEPT !.path = "clean+fallback",
                                         !.persisted = <<w.res>> \o fb.persisted])
        ELSE RunResult("ok", c1, w.file, lp.warns \cup w.warns, "clean", <<w.res>>)))

\* load_config, after load_persisted_config().unwrap_or_default()
Reconcile(lp, config, l, cfs, home, io, t) ==
    IF IsSome(detect_current_process(l))
    THEN IF needs_config_update(config, Get(detect_current_process(l)), l)
         THEN UpdatePath(lp, config, Get(detect_current_process(l)), l, cfs, home, io, t)
         ELSE KeepPath(lp, config, l, cfs)
    ELSE IF IsSome(config.process_pid) /\ ~is_process_valid(config, l)
         THEN CleanPath(lp, config, l, cfs, home, io)
         ELSE IF config.environment = "Unknown"
         THEN fallback_load_config(lp.file, l, cfs, home, io, lp.warns)
         ELSE RunResult("ok", config, lp.file, lp.warns, "none", <<>>)

\* load_config
load_config(f, l, cfs, home, io, t) ==
    Bind(load_persisted_config(f, home, io), LAMBDA lp :
      Reconcile(lp, IF lp.res = "ok" THEN lp.cfg ELSE DefaultConfig, l, cfs, home, io, t))

\* is_mixed_deployment: is_mixed_deployment_result().unwrap_or(false), on the
\* result r of its load_config()
is_mixed_deployment(r) ==
    /\ r.res = "ok"
    /\ (IsSome(r.cfg.fe_process_pid) \/ IsSome(r.cfg.fe_install_dir))
    /\ (IsSome(r.cfg.be_process_pid) \/ IsSome(r.cfg.be_install_dir))

(* ------ background cluster-info collector (core/background_tasks.rs) ---- *)
(* An attempt is collect_cluster_info_background on the thread's snapshot.  *)
(* Its inputs are what the environment does to it: whether MYSQL_HOST and   *)
(* MYSQL_PORT are set, how the mysql client ends on each of the two         *)
(* queries, and whether clusters.toml can be saved.                         *)

MAX_RETRIES == 3
RETRY_DELAY_SECS == 2
TIMEOUT_SECS == 30

\* how a run of the mysql client can end
SqlOutcomes == {"ok", "access_denied", "cannot_connect", "query_failed"}

\* MySQLTool::get_connection_params: with MYSQL_HOST and MYSQL_PORT set the
\* environment decides, else load_config() is run for the record's query_port
get_connection_params(env_params, f, l, cfs, home, io, t) ==
    IF env_params
    THEN [res |-> "ok", file |-> f]
    ELSE Bind(load_config(f, l, cfs, home, io, t), LAMBDA r :
           [res |-> r.res, file |-> r.file])

\* MySQLTool::execute_query_with_config: the result and the file it leaves
execute_query_with_config(c, env_params, sql, f, l, cfs, home, io, t) ==
    IF c.mysql = None
    THEN [res |-> "ConfigError", file |-> f]
    ELSE Bind(get_connection_params(env_params, f, l, cfs, home, io, t), LAMBDA p :
           [ res |-> CASE p.res # "ok" -> "ConfigError"
                       [] sql = "ok" -> "Ok"
                       [] sql = "access_denied" -> "MySQLAccessDenied"
                       [] OTHER -> "ToolExecutionFailed",
             file |-> p.file ])

\* MySQLTool::query_cluster_info: SHOW FRONTENDS, then SHOW BACKENDS; its
\* map_err turns whatever a query fails with into a ConfigError
query_cluster_info(c, env_params, sql1, sql2, f, l, cfs, home, io, t) ==
    Bind(execute_query_with_config(c, env_params, sql1, f, l, cfs, home, io, t), LAMBDA q1 :
      IF q1.res # "Ok"
      THEN [res |-> "ConfigError", file |-> q1.file, cause |-> sql1]
      ELSE Bind(execute_query_with_config(c, env_params, sql2, q1.file, l, cfs, home, io, t),
                LAMBDA q2 :
             IF q2.res # "Ok"
             THEN [res |-> "ConfigError", file |-> q2.file, cause |-> sql2]
             ELSE [res |-> "Ok", file |-> q2.file, cause |-> "none"]))

\* collect_cluster_info_background; saved is whether ClusterInfo::save_to_file
\* succeeds (it fails with a ConfigError)
collect_cluster_info_background(c, env_params, sql1, sql2, saved, f, l, cfs, home, io, t) ==
    IF c.mysql = None
    THEN [res |-> "Ok", file |-> f, cause |-> "none"]
    ELSE Bind(query_cluster_info(c, env_params, sql1, sql2, f, l, cfs, home, io, t),
              LAMBDA q :
           IF q.res # "Ok" THEN q
           ELSE IF saved THEN q
           ELSE [res |-> "ConfigError", file |-> q.file, cause |-> "save_to_file"])

\* a slip: a configuration error is retried like a transient one
AfterAttempt_retries_config_error(b, res, cause, secs) ==
    IF res = "Ok"
    THEN [ b EXCEPT !.pc = "done", !.attempts = @ + 1, !.elapsed = @ + secs,
                    !.last = res, !.cause = cause ]
    ELSE [ b EXCEPT !.attempts = @ + 1, !.retry_count = @ + 1,
                    !.last = res, !.cause = cause,
                    !.pc = IF res = "MySQLAccessDenied"
                              \/ b.retry_count + 1 >= MAX_RETRIES
                              \/ b.elapsed + secs >= TIMEOUT_SECS
                           THEN "done" ELSE "loop",
                    !.elapsed = IF res = "MySQLAccessDenied"
                                   \/ b.retry_count + 1 >= MAX_RETRIES
                                   \/ b.elapsed + secs >= TIMEOUT_SECS
                                THEN @ + secs ELSE @ + secs + RETRY_DELAY_SECS ]

\* the match of the loop body of collect_cluster_info_with_retry on the result
\* of an attempt that took secs seconds: break, or sleep and go round again
AfterAttempt(b, res, cause, secs) ==
    IF res = "Ok"
    THEN [ b EXCEPT !.pc = "done", !.attempts = @ + 1, !.elapsed = @ + secs,
                    !.last = res, !.cause = cause ]
    ELSE [ b EXCEPT !.attempts = @ + 1, !.retry_count = @ + 1,
                    !.last = res, !.cause = cause,
                    !.pc = IF res \in {"MySQLAccessDenied", "ConfigError"}
                              \/ b.retry_count + 1 >= MAX_RETRIES
                              \/ b.elapsed + secs >= TIMEOUT_SECS
                           THEN "done" ELSE "loop",
                    !.elapsed = IF res \in {"MySQLAccessDenied", "ConfigError"}
                                   \/ b.retry_count + 1 >= MAX_RETRIES
                                   \/ b.elapsed + secs >= TIMEOUT_SECS
                                THEN @ + secs ELSE @ + secs + RETRY_DELAY_SECS ]

\* to_app_config: the application Config of a record
to_app_config(c) ==
    [ jdk_path |-> c.jdk_path, output_dir |-> c.output_dir,
      timeout_seconds |-> c.timeout_seconds,
      no_progress_animation |-> c.no_progress_animation ]

\* DorisConfig::with_app_config
with_app_config(c, app) == Overwrite(c, app)

\* ui::error_handlers::persist_updated_config: load_config(), the application
\* Config merged in, persist_config
persist_updated_config(app, f, l, cfs, home, io, t) ==
    Bind(load_config(f, l, cfs, home, io, t), LAMBDA r :
      Bind(with_app_config(r.cfg, app), LAMBDA c :
        Bind(persist_config(c, r.file, home, io), LAMBDA w :
          [ res |-> IF w.res = "Err" THEN "err" ELSE "ok",
            cfg |-> c, file |-> w.file, persisted |-> <<w.res>> ])))

(* ------------------------ the files of the model ------------------------ *)

Chars(n) ==
    CASE n = 8030 -> <<"8", "0", "3", "0">>
      [] n = 9030 -> <<"9", "0", "3", "0">>
      [] n = 9060 -> <<"9", "0", "6", "0">>
      [] n = 8040 -> <<"8", "0", "4", "0">>
      [] n = 70000 -> <<"7", "0", "0", "0", "0">>

SampleFeConf ==
    ConfOf(<< Line("kv", "http_port", Chars(8030)),
              Line("comment", "query_port", Chars(9030)),
              Line("kv", "meta_dir", <<"/", "m">>) >>)

SampleBeConf ==
    ConfOf(<< Line("kv", "be_port", Chars(9060)),
              Line("kv", "webserver_port", <<"\"">> \o Chars(8040) \o <<"\"">>) >>)

ConfChoices(role) ==
    IF role = "FE" THEN {MissingConf, SampleFeConf} ELSE {MissingConf, SampleBeConf}

\* the install directories of the host, and its JDK directories
Homes == {"/opt/selectdb", "/data/doris"}
Javas == {"/opt/jdk", "/usr/lib/jvm"}

\* the snapshots detect_process_detailed can return for a role: the paths are
\* those get_paths_by_pid_with_fallback gives for a process whose environment
\* block cannot be read, and for one whose block starts with DORIS_HOME
ProcChoices(r) ==
    LET Blocks == { [ok |-> FALSE, lines |-> <<>>],
                    [ok |-> TRUE,
                     lines |-> << [key |-> "DORIS_HOME", val |-> "/data/doris"],
                                  [key |-> "JAVA_HOME", val |-> "/usr/lib/jvm"] >>] }
        Paths == {get_paths_by_pid_with_fallback(r, e, None) : e \in Blocks}
    IN  {Proc(pid, r, p.doris_home, p.java_home) : pid \in Pids(r), p \in Paths}

\* the live environments: each role not running, or running as one process
LiveChoices ==
    {l \in [Roles -> {None} \cup {Some(p) : p \in ProcChoices("FE") \cup ProcChoices("BE")}] :
        \A r \in Roles : l[r] = None \/ Get(l[r]).environment = r}

FullPaths(dir, jdk) ==
    [ install_dir |-> Some(dir), conf_dir |-> Some(Join(dir, "conf")),
      log_dir |-> Some(Join(dir, "log")), jdk_path |-> Some(jdk),
      output_dir |-> Some("/tmp/out"), meta_dir |-> None ]

\* the oldest shape: flat, single role, no process section
FlatLegacyDoc(env) ==
    [ EmptyDoc EXCEPT
        !.metadata = Some([environment |-> env, version |-> "0.0.1"]),
        !.paths = Some(FullPaths("/data/doris", "/usr/lib/jvm")),
        !.ports = Some(IF env = "FE"
                       THEN [EmptyPorts EXCEPT !.http_port = Some(8030),
                                               !.webserver_port = Some(8041)]
                       ELSE [EmptyPorts EXCEPT !.be_port = Some(9060)]),
        !.network = Some([ priority_networks |-> Some("10.0.0.0/8"),
                           meta_service_endpoint |-> None ]),
        !.settings = Some([timeout_seconds |-> 120, no_progress_animation |-> TRUE]) ]

\* flat with process bookkeeping (struct PersistentConfig)
FlatProcessDoc ==
    [ FlatLegacyDoc("BE") EXCEPT
        !.process = Some([EmptyProcessInfo EXCEPT !.pid = Some(1),
                                                  !.command = Some("doris_BE"),
                                                  !.last_detected = Some(ToRfc3339(0))]) ]

\* organized fe/be sub-sections, as to_organized_config writes it
OrganizedDoc ==
    to_organized_config(
      Overwrite(DefaultConfig,
        [ environment |-> "Mixed", install_dir |-> "/data/doris",
          conf_dir |-> "/data/doris/conf", log_dir |-> "/data/doris/log",
          http_port |-> Some(8030), be_port |-> Some(9060),
          fe_process_pid |-> Some(1), fe_install_dir |-> Some("/data/doris"),
          be_process_pid |-> Some(2), be_install_dir |-> Some("/data/doris") ]))

\* a text no schema matches: a document without a settings section
NoSchemaDoc == [FlatLegacyDoc("FE") EXCEPT !.settings = None]

InitialFiles ==
    { AbsentFile, UnreadableFile(FlatProcessDoc), TextFile(EmptyDoc), TextFile(NoSchemaDoc),
      TextFile(FlatLegacyDoc("FE")), TextFile(FlatLegacyDoc("BE")),
      TextFile(FlatProcessDoc), TextFile(OrganizedDoc) }

(* ------------------------------ actions --------------------------------- *)

NoOut ==
    [ op |-> "env", res |-> "none", warns |-> {}, path |-> "none", persisted |-> <<>>,
      decoder |-> "none", rewrote |-> FALSE, io |-> "none" ]

LocatorIdle == /\ cmds = <<>> /\ ran = <<>> /\ pc = "idle" /\ found = None
ParserIdle == /\ content = <<>> /\ penv = "Unknown"
LocatorUnchanged == UNCHANGED <<cmds, ran, pc, found>>
ParserUnchanged == UNCHANGED <<content, penv>>

\* no background thread has been spawned
NoThread ==
    [ pc |-> "none", snapshot |-> DefaultConfig, retry_count |-> 0, attempts |-> 0,
      elapsed |-> 0, last |-> "none", cause |-> "none" ]
CollectorIdle == bg = NoThread
CollectorUnchanged == UNCHANGED bg

\* collect_many has not been called
NoPool ==
    [ pc |-> "none", idents |-> <<>>, doris_cfg |-> DefaultConfig, next_index |-> 0,
      progress |-> 0, results |-> <<>>, workers |-> <<>>, fetched |-> <<>>,
      reports |-> <<>> ]

Init ==
    /\ file \in InitialFiles
    /\ cfg = DefaultConfig
    /\ out = NoOut
    /\ live \in LiveChoices
    /\ conf \in [Roles -> {MissingConf, SampleFeConf, SampleBeConf}]
    /\ \A r \in Roles : conf[r] \in ConfChoices(r)
    /\ home_dir \in BOOLEAN
    /\ changes = 0
    /\ LocatorIdle
    /\ ParserIdle
    /\ CollectorIdle
    /\ pool = NoPool

\* what the file system can do to the writes of one operation
IoPossible(io) == io = "mkdir_fail" => file.kind = "absent"

\* a role process starts
StartProc ==
    \E r \in Roles : \E p \in ProcChoices(r) :
        /\ live[r] = None
        /\ p.pid \notin AlivePids(live)
        /\ live' = [live EXCEPT ![r] = Some(p)]
        /\ out' = NoOut
        /\ cfg' = DefaultConfig
        /\ changes < MaxChanges
        /\ changes' = changes + 1
        /\ UNCHANGED <<file, conf, home_dir>>
        /\ LocatorUnchanged /\ ParserUnchanged /\ CollectorUnchanged /\ UNCHANGED pool

\* a role process stops
StopProc ==
    \E r \in Roles :
        /\ live[r] # None
        /\ live' = [live EXCEPT ![r] = None]
        /\ out' = NoOut
        /\ cfg' = DefaultConfig
        /\ changes < MaxChanges
        /\ changes' = changes + 1
        /\ UNCHANGED <<file, conf, home_dir>>
        /\ LocatorUnchanged /\ ParserUnchanged /\ CollectorUnchanged /\ UNCHANGED pool

\* the role config file at the role's install directory changes
SetConf ==
    \E r \in Roles : \E c \in ConfChoices(r) :
        /\ conf[r] # c
        /\ conf' = [conf EXCEPT ![r] = c]
        /\ out' = NoOut
        /\ cfg' = DefaultConfig
        /\ changes < MaxChanges
        /\ changes' = changes + 1
        /\ UNCHANGED <<file, live, home_dir>>
        /\ LocatorUnchanged /\ ParserUnchanged /\ CollectorUnchanged /\ UNCHANGED pool

\* HOME becomes (un)determinable
SetHome ==
    /\ home_dir' = ~home_dir
    /\ out' = NoOut
    /\ cfg' = DefaultConfig
    /\ changes < MaxChanges
    /\ changes' = changes + 1
    /\ UNCHANGED <<file, live, conf>>
    /\ LocatorUnchanged /\ ParserUnchanged /\ CollectorUnchanged /\ UNCHANGED pool

\* config_loader::load_config()
LoadConfig ==
    \E io \in IoOutcomes, t \in Times :
        /\ IoPossible(io)
        /\ \E r \in {load_config(file, live, conf, home_dir, io, t)} :
               /\ file' = r.file
               /\ cfg' = r.cfg
               /\ out' = [ op |-> "load_config", res |-> r.res, warns |-> r.warns,
                           path |-> r.path, persisted |-> r.persisted,
                           decoder |-> "none", rewrote |-> FALSE, io |-> "none" ]
        /\ UNCHANGED <<live, conf, home_dir, changes>>
        /\ LocatorUnchanged /\ ParserUnchanged /\ CollectorUnchanged /\ UNCHANGED pool

\* config_persister::load_persisted_config()
LoadPersisted ==
    \E io \in IoOutcomes :
        /\ IoPossible(io)
        /\ \E r \in {load_persisted_config(file, home_dir, io)} :
               /\ file' = r.file
               /\ cfg' = IF r.res = "ok" THEN r.cfg ELSE cfg
               /\ out' = [ op |-> "load_persisted_config", res |-> r.res,
                           warns |-> r.warns, path |-> "none", persisted |-> <<>>,
                           decoder |-> r.decoder, rewrote |-> r.rewrote, io |-> io ]
        /\ UNCHANGED <<live, conf, home_dir, changes>>
        /\ LocatorUnchanged /\ ParserUnchanged /\ CollectorUnchanged /\ UNCHANGED pool

\* persist_configuration(&config) on the record in hand
PersistConfiguration ==
    \E io \in IoOutcomes :
        /\ out.op \in {"load_config", "load_persisted_config", "detect_mixed_deployment"}
        /\ IoPossible(io)
        /\ \E r \in {persist_configuration(cfg, file, home_dir, io)} :
               /\ file' = r.file
               /\ out' = [ op |-> IF out.op = "load_persisted_config" /\ out.res = "ok"
                                  THEN "persist_loaded" ELSE "persist_configuration",
                           res |-> "ok", warns |-> r.warns, path |-> "none",
                           persisted |-> <<r.res>>, decoder |-> out.decoder,
                           rewrote |-> FALSE, io |-> io ]
        /\ UNCHANGED <<cfg, live, conf, home_dir, changes>>
        /\ LocatorUnchanged /\ ParserUnchanged /\ CollectorUnchanged /\ UNCHANGED pool

\* process_detector::detect_mixed_deployment(&mut config) on the record in hand
DetectMixed ==
    /\ out.op \in {"load_config", "load_persisted_config"}
    /\ \E r \in {detect_mixed_deployment(cfg, live, conf)} :
           /\ cfg' = r.cfg
           /\ out' = [ op |-> "detect_mixed_deployment", res |-> r.res, warns |-> {},
                       path |-> IF r.is_mixed THEN "mixed" ELSE "not mixed",
                       persisted |-> <<>>, decoder |-> "none", rewrote |-> FALSE,
                       io |-> "none" ]
    /\ UNCHANGED <<file, live, conf, home_dir, changes>>
    /\ LocatorUnchanged /\ ParserUnchanged /\ CollectorUnchanged /\ UNCHANGED pool

(* get_pid_by_env(FE), one listing command at a time *)

W(str) ==
    CASE str = "1" -> <<"1">>
      [] str = "2x" -> <<"2", "x">>
      [] str = "2" -> <<"2">>
      [] str = "root" -> <<"r", "o", "o", "t">>
      [] str = "rooter" -> <<"r", "o", "o", "t", "e", "r">>
      [] str = "doris" -> <<"d", "o", "r", "i", "s">>
      [] str = "DorisFE" -> <<"D", "o", "r", "i", "s", "F", "E">>
      [] str = "xDorisFE" -> <<"x", "D", "o", "r", "i", "s", "F", "E">>

\* what one listing command can print, or "err"
CommandOutputs ==
    { "err", <<>>,
      << <<W("1"), W("DorisFE")>> >>,
      << <<W("root"), W("1"), W("DorisFE")>> >>,
      << <<W("root"), W("2x")>>, <<W("root"), W("1")>> >>,
      << <<W("1"), W("xDorisFE")>>, <<W("1"), W("DorisFE")>> >>,
      << <<W("1"), W("xDorisFE")>> >> }

InitLocator ==
    /\ cmds \in [1..Len(FeCommands) -> CommandOutputs]
    /\ ran = <<>>
    /\ pc = "loop"
    /\ found = None
    /\ file = AbsentFile /\ cfg = DefaultConfig /\ out = NoOut
    /\ live = [r \in Roles |-> None] /\ conf = [r \in Roles |-> MissingConf]
    /\ home_dir = TRUE /\ changes = 0
    /\ ParserIdle
    /\ CollectorIdle
    /\ pool = NoPool

\* the next command of the array is run and its output looked at
RunCommand ==
    /\ pc = "loop"
    /\ Len(ran) < Len(FeCommands)
    /\ \E pid \in {TryCommand(FeCommands[Len(ran) + 1], cmds[Len(ran) + 1])} :
           /\ ran' = Append(ran, FeCommands[Len(ran) + 1])
           /\ found' = pid
           /\ pc' = IF IsSome(pid) THEN "Ok" ELSE "loop"
    /\ UNCHANGED <<cmds, file, cfg, out, live, conf, home_dir, changes>>
    /\ ParserUnchanged /\ CollectorUnchanged /\ UNCHANGED pool

\* the array is exhausted: Err(ProcessNotFound)
NotFound ==
    /\ pc = "loop"
    /\ Len(ran) = Len(FeCommands)
    /\ pc' = "ProcessNotFound"
    /\ UNCHANGED <<cmds, ran, found, file, cfg, out, live, conf, home_dir, changes>>
    /\ ParserUnchanged /\ CollectorUnchanged /\ UNCHANGED pool

SpecLocator == InitLocator /\ [][RunCommand \/ NotFound]_vars

(* get_pid_by_env on ps listings of up to two processes; jps prints nothing *)

InitTieBreak ==
    /\ cmds \in
          LET Lines == {<<W(u), W(p)>> : u \in {"root", "rooter", "doris"}, p \in {"1", "2"}}
              Listings == {<<>>} \cup {<<l>> : l \in Lines}
                            \cup {<<l1, l2>> : l1 \in Lines, l2 \in Lines}
          IN  {<< <<>>, fe, <<>>, be >> : fe \in Listings, be \in Listings}
    /\ ran = <<>>
    /\ pc = "idle"
    /\ found = None
    /\ file = AbsentFile /\ cfg = DefaultConfig /\ out = NoOut
    /\ live = [r \in Roles |-> None] /\ conf = [r \in Roles |-> MissingConf]
    /\ home_dir = TRUE /\ changes = 0
    /\ ParserIdle
    /\ CollectorIdle
    /\ pool = NoPool

\* process_detector::get_pid_by_env(env); out.path is the role asked for
GetPidByEnv ==
    \E env \in Roles :
        /\ out.op = "env"
        /\ found' = get_pid_by_env(env, cmds)
        /\ out' = [ NoOut EXCEPT
                      !.op = "get_pid_by_env", !.path = env,
                      !.res = IF get_pid_by_env(env, cmds) = None
                              THEN "ProcessNotFound" ELSE "ok" ]
        /\ UNCHANGED <<file, cfg, live, conf, home_dir, changes, cmds, ran, pc>>
        /\ ParserUnchanged /\ CollectorUnchanged /\ UNCHANGED pool

SpecTieBreak == InitTieBreak /\ [][GetPidByEnv]_vars

(* get_paths_by_pid_with_fallback on the environment block of a process *)

InitEnviron ==
    /\ cmds \in
          LET Entries == { [key |-> "DORIS_HOME", val |-> "/data/doris"],
                           [key |-> "JAVA_HOME", val |-> "/usr/lib/jvm"],
                           [key |-> "HOME", val |-> "/root"],
                           [key |-> "LANG", val |-> "C"] }
              Blocks == {b \in UNION {[1..n -> Entries] : n \in 0..Cardinality(Entries)} :
                           \A i, j \in 1..Len(b) : b[i].key = b[j].key => i = j}
          IN  {<<[ok |-> TRUE, lines |-> b]>> : b \in Blocks}
                \cup {<<[ok |-> FALSE, lines |-> <<>>]>>}
    /\ ran = <<>>
    /\ pc = "idle"
    /\ found = None
    /\ file = AbsentFile /\ cfg = DefaultConfig /\ out = NoOut
    /\ live = [r \in Roles |-> None] /\ conf = [r \in Roles |-> MissingConf]
    /\ home_dir = TRUE /\ changes = 0
    /\ ParserIdle
    /\ CollectorIdle
    /\ pool = NoPool

\* the path step of detect_process_detailed(env); out.path is the role
GetPaths ==
    \E env \in Roles, cmd_home \in {None, Some("/opt/doris")} :
        /\ out.op = "env"
        /\ found' = Some(get_paths_by_pid_with_fallback(env, cmds[1], cmd_home))
        /\ out' = [NoOut EXCEPT !.op = "get_paths_by_pid_with_fallback", !.path = env]
        /\ UNCHANGED <<file, cfg, live, conf, home_dir, changes, cmds, ran, pc>>
        /\ ParserUnchanged /\ CollectorUnchanged /\ UNCHANGED pool

SpecEnviron == InitEnviron /\ [][GetPaths]_vars

(* get_valid_pid on a record detected earlier, in the environment of the call *)

\* the records a caller can hold: the default one, and one per process that an
\* earlier load_config detected
PidRecords ==
    {DefaultConfig}
      \cup {update_config_from_process(DefaultConfig, p, [r \in Roles |-> MissingConf], 0) :
              p \in ProcChoices("FE") \cup ProcChoices("BE")}

InitPid ==
    /\ file = AbsentFile
    /\ cfg \in PidRecords
    /\ out = NoOut
    /\ live \in LiveChoices
    /\ conf = [r \in Roles |-> MissingConf]
    /\ home_dir = TRUE
    /\ changes = 0
    /\ LocatorIdle
    /\ ParserIdle
    /\ CollectorIdle
    /\ pool = NoPool

\* config.get_valid_pid(); out.path is what the probe of the record's pid gave
GetValidPid ==
    \E spawned \in BOOLEAN :
        /\ out.op = "env"
        /\ found' = get_valid_pid(cfg, live, spawned)
        /\ out' = [ NoOut EXCEPT
                      !.op = "get_valid_pid",
                      !.path = IF IsSome(cfg.process_pid)
                               THEN KillProbe(Get(cfg.process_pid), live, spawned)
                               ELSE "not probed" ]
        /\ UNCHANGED <<file, cfg, live, conf, home_dir, changes, cmds, ran, pc>>
        /\ ParserUnchanged /\ CollectorUnchanged /\ UNCHANGED pool

\* process_detector::detect_current_process(): found is the snapshot it returns
DetectCurrent ==
    /\ out.op = "env"
    /\ found' = detect_current_process(live)
    /\ out' = [ NoOut EXCEPT
                  !.op = "detect_current_process",
                  !.res = IF detect_current_process(live) = None
                          THEN "ProcessNotFound" ELSE "ok" ]
    /\ UNCHANGED <<file, cfg, live, conf, home_dir, changes, cmds, ran, pc>>
    /\ ParserUnchanged /\ CollectorUnchanged /\ UNCHANGED pool

SpecPid == InitPid /\ [][GetValidPid \/ DetectCurrent]_vars

(* the start of a session (run_cli) and the background collector beside it *)

\* the record a past session persisted: a Frontend at home h, with credentials
StoredRecord(h) ==
    update_config_from_process([DefaultConfig EXCEPT !.mysql = Some("credentials")],
                               Proc(1, "FE", h, "/opt/jdk"),
                               [r \in Roles |-> MissingConf], 0)

InitCollector ==
    /\ file \in {TextFile(to_organized_config(StoredRecord(h))) : h \in Homes}
    /\ cfg = DefaultConfig
    /\ out = NoOut
    /\ live \in {l \in LiveChoices :
                    \A r \in Roles : \A p \in l[r] : p.java_home = "/opt/jdk"}
    /\ conf = [r \in Roles |-> IF r = "FE" THEN SampleFeConf ELSE SampleBeConf]
    /\ home_dir = TRUE
    /\ changes = 0
    /\ LocatorIdle
    /\ ParserIdle
    /\ CollectorIdle
    /\ pool = NoPool

\* run_cli up to the spawn: load_config(), then spawn_cluster_info_collector on
\* a clone of the record when a Frontend is found and the record has credentials
RunCli ==
    \E io \in IoOutcomes, t \in Times :
        /\ bg.pc = "none"
        /\ IoPossible(io)
        /\ \E r \in {load_config(file, live, conf, home_dir, io, t)} :
               /\ file' = r.file
               /\ cfg' = r.cfg
               /\ out' = [NoOut EXCEPT !.op = "run_cli", !.res = r.res, !.path = r.path]
               /\ bg' = IF IsSome(live["FE"]) /\ IsSome(r.cfg.mysql)
                        THEN [NoThread EXCEPT !.pc = "spawned", !.snapshot = r.cfg]
                        ELSE [NoThread EXCEPT !.pc = "not spawned"]
        /\ UNCHANGED <<live, conf, home_dir, changes>>
        /\ LocatorUnchanged /\ ParserUnchanged /\ UNCHANGED pool

\* AppState::update_config on the main thread: the authoritative record takes
\* the new setting and is persisted
UpdateConfig ==
    \E secs \in {60, 120}, io \in IoOutcomes :
        /\ bg.pc # "none"
        /\ secs # cfg.timeout_seconds
        /\ IoPossible(io)
        /\ \E c \in {with_app_config(cfg, [to_app_config(cfg) EXCEPT !.timeout_seconds = secs])} :
           \E w \in {persist_configuration(c, file, home_dir, io)} :
               /\ cfg' = c
               /\ file' = w.file
               /\ out' = [NoOut EXCEPT !.op = "update_config", !.res = "ok",
                                       !.persisted = <<w.res>>]
        /\ UNCHANGED <<live, conf, home_dir, changes>>
        /\ LocatorUnchanged /\ ParserUnchanged /\ CollectorUnchanged /\ UNCHANGED pool

\* the background thread wakes up: should_update_cluster_info() decides whether
\* collect_cluster_info_with_retry is entered
StartCollector ==
    \E stale \in BOOLEAN :
        /\ bg.pc = "spawned"
        /\ bg' = [bg EXCEPT !.pc = IF stale THEN "loop" ELSE "done"]
        /\ UNCHANGED <<file, cfg, out, live, conf, home_dir, changes>>
        /\ LocatorUnchanged /\ ParserUnchanged /\ UNCHANGED pool

\* one turn of the while loop of collect_cluster_info_with_retry, on the
\* background thread
Attempt ==
    /\ bg.pc = "loop"
    /\ IF bg.retry_count < MAX_RETRIES /\ bg.elapsed < TIMEOUT_SECS
       THEN \E env_params, saved \in BOOLEAN, sql1, sql2 \in SqlOutcomes,
               io \in IoOutcomes, t \in Times, secs \in {0, TIMEOUT_SECS} :
                /\ IoPossible(io)
                /\ env_params => (io = "ok" /\ t = 0)
                /\ sql1 # "ok" => (sql2 = "ok" /\ saved)
                /\ sql2 # "ok" => saved
                /\ \E r \in {collect_cluster_info_background(bg.snapshot, env_params, sql1,
                                 sql2, saved, file, live, conf, home_dir, io, t)} :
                       /\ file' = r.file
                       /\ bg' = AfterAttempt(bg, r.res, r.cause, secs)
       ELSE /\ bg' = [bg EXCEPT !.pc = "done"]
            /\ file' = file
    /\ UNCHANGED <<cfg, out, live, conf, home_dir, changes>>
    /\ LocatorUnchanged /\ ParserUnchanged /\ UNCHANGED pool

SpecCollector ==
    InitCollector /\ [][RunCli \/ UpdateConfig \/ StartCollector \/ Attempt]_vars

(* parse_config_internal on the text of one role config file *)

Quoted(t) == <<"\"">> \o t \o <<"\"">>

\* the lines a role config file of the model is made of
ConfLines ==
    {Line("kv", k, v) : k \in {"http_port", "query_port", "be_port", "webserver_port"},
                        v \in {Chars(8030), Quoted(Chars(9030)), Chars(70000), <<"a">>,
                              <<"-", "1">>}}
      \cup {Line("comment", "rpc_port", Chars(8030)), Line("blank", "", <<>>),
            Line("kv", "meta_dir", <<"/", "m">>)}
      \cup {Line("kv", "LOG_DIR", v) :
              v \in {<<DorisHomeToken, "/", "l">>, <<"/", "v">>,
                     <<DorisHomeToken, "/", DorisHomeToken>>}}

InitParser ==
    /\ content \in UNION {[1..n -> ConfLines] : n \in 0..MaxLines}
    /\ penv \in Roles
    /\ file = AbsentFile /\ cfg = DefaultConfig /\ out = NoOut
    /\ live = [r \in Roles |-> None] /\ conf = [r \in Roles |-> MissingConf]
    /\ home_dir = TRUE /\ changes = 0
    /\ LocatorIdle
    /\ CollectorIdle
    /\ pool = NoPool

\* config_parser::parse_config_internal on the file
ParseConfig ==
    /\ out.op = "env"
    /\ \E r \in {parse_config_internal(penv, "/opt/selectdb", "/opt/jdk", ConfOf(content))} :
           /\ cfg' = r.cfg
           /\ out' = [NoOut EXCEPT !.op = "parse_config_internal",
                                   !.res = IF r.ok THEN "ok" ELSE "err"]
    /\ UNCHANGED <<file, live, conf, home_dir, changes>>
    /\ LocatorUnchanged /\ ParserUnchanged /\ CollectorUnchanged /\ UNCHANGED pool

SpecParser == InitParser /\ [][ParseConfig]_vars

(* the fix flow of a failed tool run, in an environment that stays as it is *)

\* fix_jdk_path: the user enters another JDK path for the session's Config,
\* and persist_updated_config writes it
FixJdkPath ==
    \E j \in Javas, io \in IoOutcomes, t \in Times :
        /\ out.op = "load_config" /\ out.res = "ok"
        /\ j # cfg.jdk_path
        /\ IoPossible(io)
        /\ \E r \in {persist_updated_config([to_app_config(cfg) EXCEPT !.jdk_path = j],
                                           file, live, conf, home_dir, io, t)} :
               /\ file' = r.file
               /\ cfg' = r.cfg
               /\ out' = [NoOut EXCEPT !.op = "persist_updated_config", !.res = r.res,
                                       !.persisted = r.persisted]
        /\ UNCHANGED <<live, conf, home_dir, changes>>
        /\ LocatorUnchanged /\ ParserUnchanged /\ CollectorUnchanged /\ UNCHANGED pool

SpecFix == Init /\ [][LoadConfig \/ FixJdkPath]_vars

(* the mixed-deployment accessor while role processes start and stop *)

\* config_loader::is_mixed_deployment(); out.path is its answer
IsMixedDeployment ==
    \E io \in IoOutcomes, t \in Times :
        /\ IoPossible(io)
        /\ \E r \in {load_config(file, live, conf, home_dir, io, t)} :
               /\ file' = r.file
               /\ cfg' = r.cfg
               /\ out' = [ NoOut EXCEPT
                             !.op = "is_mixed_deployment", !.res = r.res,
                             !.path = IF is_mixed_deployment(r) THEN "mixed" ELSE "not mixed",
                             !.persisted = r.persisted ]
        /\ UNCHANGED <<live, conf, home_dir, changes>>
        /\ LocatorUnchanged /\ ParserUnchanged /\ CollectorUnchanged /\ UNCHANGED pool

SpecMixed == Init /\ [][StartProc \/ StopProc \/ IsMixedDeployment]_vars

(* ----- the table-info worker pool (tools/fe/table_info/mod.rs) ---------- *)
(* pool.workers[w] is the position of worker thread w in its loop and the   *)
(* index it holds; pool.fetched[i] lists the fetches made of input table i, *)
(* each with the worker that made it and whether it succeeded.              *)

MaxTables == 2
MaxConcurrency == 2

\* FeTableInfoTool::suggest_concurrency
suggest_concurrency(total_tables) ==
    LET hard_cap == 32
        RECURSIVE Doubled(_)
        Doubled(c) == IF c < total_tables /\ c < hard_cap THEN Doubled(c * 2) ELSE c
        Min(a, b) == IF a < b THEN a ELSE b
    IN  IF total_tables <= 1
        THEN 1
        ELSE Bind(Min(Min(Doubled(2), total_tables), hard_cap), LAMBDA c :
               IF c > 1 THEN c ELSE 1)

\* ops::fetch_and_parse_all on a worker's executor: SHOW CREATE TABLE, then
\* SHOW PARTITIONS, each through execute_query_with_config; the parsers that
\* follow return Ok on every text
fetch_and_parse_all(c, env_params, sql1, sql2, f, l, cfs, home, io, t) ==
    Bind(execute_query_with_config(c, env_params, sql1, f, l, cfs, home, io, t), LAMBDA q1 :
      IF q1.res # "Ok"
      THEN q1
      ELSE execute_query_with_config(c, env_params, sql2, q1.file, l, cfs, home, io, t))

\* collect_many up to the end of the spawn loop: the empty input returns at
\* once; else load_config()?.with_app_config(cfg), the shared counters and
\* slots, and worker_count threads (a thread that has been spawned and has
\* not run yet is a thread that is not spawned yet)
CollectMany ==
    \E io \in IoOutcomes, t \in Times :
        /\ pool.pc = "none"
        /\ IoPossible(io)
        /\ \E r \in {load_config(file, live, conf, home_dir, io, t)} :
           \E n \in 0..MaxTables, concurrency \in 0..MaxConcurrency :
           \E worker_count \in {IF concurrency < 1 THEN 1
                                ELSE IF concurrency < suggest_concurrency(n)
                                THEN concurrency ELSE suggest_concurrency(n)} :
               IF n = 0
               THEN /\ pool' = [NoPool EXCEPT !.pc = "returned"]
                    /\ file' = file
               ELSE /\ file' = r.file
                    /\ pool' = [ pc |-> "running",
                                 idents |-> SubSeq(<<"db.t1", "db.t2", "db.t3">>, 1, n),
                                 doris_cfg |-> with_app_config(r.cfg, to_app_config(cfg)),
                                 next_index |-> 0, progress |-> 0,
                                 results |-> [i \in 1..n |-> None],
                                 workers |-> [w \in 1..worker_count |->
                                                 [pc |-> "loop", idx |-> 0]],
                                 fetched |-> [i \in 1..n |-> <<>>],
                                 reports |-> <<>> ]
        /\ out' = [NoOut EXCEPT !.op = "collect_many"]
        /\ UNCHANGED <<cfg, live, conf, home_dir, changes>>
        /\ LocatorUnchanged /\ ParserUnchanged /\ CollectorUnchanged

\* a slip: the index is read with load, and no worker advances it
TakeIndex_load ==
    \E w \in DOMAIN pool.workers :
        /\ pool.pc = "running"
        /\ pool.workers[w].pc = "loop"
        /\ pool' = [pool EXCEPT !.workers[w] =
                                    [ pc |-> IF pool.next_index >= Len(pool.idents)
                                             THEN "exit" ELSE "fetch",
                                      idx |-> pool.next_index ]]
        /\ UNCHANGED <<file, cfg, out, live, conf, home_dir, changes>>
        /\ LocatorUnchanged /\ ParserUnchanged /\ CollectorUnchanged

\* a worker at the head of its loop: idx = next_index.fetch_add(1, SeqCst),
\* and break when idx >= len
TakeIndex ==
    \E w \in DOMAIN pool.workers :
        /\ pool.pc = "running"
        /\ pool.workers[w].pc = "loop"
        /\ pool' = [pool EXCEPT !.next_index = @ + 1,
                                !.workers[w] =
                                    [ pc |-> IF pool.next_index >= Len(pool.idents)
                                             THEN "exit" ELSE "fetch",
                                      idx |-> pool.next_index ]]
        /\ UNCHANGED <<file, cfg, out, live, conf, home_dir, changes>>
        /\ LocatorUnchanged /\ ParserUnchanged /\ CollectorUnchanged

\* a worker fetches the table at its index: fetch_and_parse_all, mapped to
\* the report; an error is printed (whatever a query fails with)
Fetch ==
    \E w \in DOMAIN pool.workers :
    \E env_params \in BOOLEAN, sql1, sql2 \in {"ok", "cannot_connect"},
       io \in IoOutcomes, t \in Times :
        /\ pool.pc = "running"
        /\ pool.workers[w].pc = "fetch"
        /\ IoPossible(io)
        /\ env_params => (io = "ok" /\ t = 0)
        /\ sql1 # "ok" => sql2 = "ok"
        /\ \E r \in {fetch_and_parse_all(pool.doris_cfg, env_params, sql1, sql2,
                                         file, live, conf, home_dir, io, t)} :
               /\ file' = r.file
               /\ pool' = [pool EXCEPT
                             !.workers[w].pc = IF r.res = "Ok" THEN "store" ELSE "progress",
                             !.fetched[pool.workers[w].idx + 1] =
                                 Append(@, [by |-> w, ok |-> r.res = "Ok"])]
        /\ UNCHANGED <<cfg, out, live, conf, home_dir, changes>>
        /\ LocatorUnchanged /\ ParserUnchanged /\ CollectorUnchanged

\* a worker with a report: guard[idx] = Some(rep) under the results lock
StoreReport ==
    \E w \in DOMAIN pool.workers :
        /\ pool.pc = "running"
        /\ pool.workers[w].pc = "store"
        /\ pool' = [pool EXCEPT
                      !.workers[w].pc = "progress",
                      !.results[pool.workers[w].idx + 1] =
                          Some([table |-> pool.idents[pool.workers[w].idx + 1]])]
        /\ UNCHANGED <<file, cfg, out, live, conf, home_dir, changes>>
        /\ LocatorUnchanged /\ ParserUnchanged /\ CollectorUnchanged

\* a worker at the end of its loop body: progress.fetch_add(1, SeqCst) and
\* the progress line
CountProgress ==
    \E w \in DOMAIN pool.workers :
        /\ pool.pc = "running"
        /\ pool.workers[w].pc = "progress"
        /\ pool' = [pool EXCEPT !.progress = @ + 1, !.workers[w].pc = "loop"]
        /\ UNCHANGED <<file, cfg, out, live, conf, home_dir, changes>>
        /\ LocatorUnchanged /\ ParserUnchanged /\ CollectorUnchanged

\* the main thread past its joins: every worker has left its loop; the slots
\* are flattened into the returned list
JoinHandles ==
    /\ pool.pc = "running"
    /\ \A w \in DOMAIN pool.workers : pool.workers[w].pc = "exit"
    /\ \E some \in {SelectSeq(pool.results, LAMBDA o : IsSome(o))} :
           pool' = [pool EXCEPT !.pc = "returned",
                                !.reports = [k \in 1..Len(some) |-> Get(some[k])]]
    /\ UNCHANGED <<file, cfg, out, live, conf, home_dir, changes>>
    /\ LocatorUnchanged /\ ParserUnchanged /\ CollectorUnchanged

\* a Frontend host with the record of a past session
InitPool ==
    /\ file \in {TextFile(to_organized_config(StoredRecord(h))) : h \in Homes}
    /\ cfg = DefaultConfig
    /\ out = NoOut
    /\ live \in {l \in LiveChoices : IsSome(l["FE"]) /\ l["BE"] = None}
    /\ conf = [r \in Roles |-> IF r = "FE" THEN SampleFeConf ELSE SampleBeConf]
    /\ home_dir = TRUE
    /\ changes = 0
    /\ LocatorIdle
    /\ ParserIdle
    /\ CollectorIdle
    /\ pool = NoPool

\* collect_many beside nothing else; the scheduler lets a thread that can run
\* run
SpecPool ==
    /\ InitPool
    /\ [][CollectMany \/ TakeIndex \/ Fetch \/ StoreReport \/ CountProgress
              \/ JoinHandles]_vars
    /\ WF_vars(CollectMany \/ TakeIndex \/ Fetch \/ StoreReport \/ CountProgress
                  \/ JoinHandles)

\* the reconciler in a changing environment
Next ==
    \/ StartProc
    \/ StopProc
    \/ SetConf
    \/ SetHome
    \/ LoadConfig

Spec == Init /\ [][Next]_vars

\* the configuration store and the mixed-deployment detector, called directly
SpecStore == Init /\ [][LoadPersisted \/ PersistConfiguration \/ DetectMixed]_vars

(* ------------------------ the configuration store ------------------------ *)

\* the last step wrote the loaded record in hand, and the write succeeded
PersistedLoaded == out.op = "persist_loaded" /\ out.persisted = <<"Success">>

\* C1: a record obtained by load_persisted_config, written by persist_config
\* and loaded again, comes back equal in every field
C1_RoundTrip ==
    [][(PersistedLoaded /\ out'.op = "load_persisted_config" /\ out'.res = "ok")
           => cfg' = cfg]_vars

\* the last step was the first load of a file without a process section
Migrated == out.op = "load_persisted_config" /\ out.decoder = "migrate_legacy_config"

\* C7: a file lacking the process section loads with empty process fields and is
\* rewritten once; the next load is decoded by a current-schema parser, rewrites
\* nothing and returns the same record
C7_MigratesOnce ==
    [][(Migrated /\ out.rewrote /\ out'.op = "load_persisted_config")
           => /\ \A k \in ProcessFields : cfg[k] = None
              /\ out'.res = "ok"
              /\ out'.decoder \in {"from_organized_config", "from_persistent_config"}
              /\ ~out'.rewrote
              /\ cfg' = cfg]_vars

\* no schema shape of the ladder accepts the document d
NoSchemaMatches(d) ==
    /\ ~ParsesAsLegacyWithMySQL(d)
    /\ ~ParsesAsOrganized(d)
    /\ ParseAsPersistent(d) # "ok"
    /\ ~(ParseAsPersistent(d) = "missing field process" /\ ParsesAsLegacy(d))

\* C8: with the home directory known, load_persisted_config returns a record
\* whatever the file is; when no schema shape matches, the record is the
\* default one and a warning is emitted
C8_LoadYieldsRecord ==
    [][(out'.op = "load_persisted_config" /\ home_dir)
           => /\ out'.res = "ok"
              /\ DOMAIN cfg' = DOMAIN DefaultConfig
              /\ (file.kind = "text" /\ NoSchemaMatches(file.doc))
                     => (cfg' = DefaultConfig /\ out'.warns # {})]_vars

\* C8 happens: a text no schema matches was loaded
C8_Witness ==
    /\ out.op = "load_persisted_config" /\ home_dir
    /\ file = TextFile(NoSchemaDoc)
    /\ out.res = "ok" /\ cfg = DefaultConfig
    /\ "Failed to parse config file" \in out.warns

\* the last step was persist_configuration and nothing was written
PersistFailed ==
    /\ out.op \in {"persist_loaded", "persist_configuration"}
    /\ out.persisted # <<"Success">>

\* C9: whenever persisting fails, persist_configuration returns normally and a
\* warning is emitted for the failure
C9_SaveWarns == PersistFailed => (out.res = "ok" /\ out.warns # {})

(* ---------------------- the mixed-deployment detector -------------------- *)

Other(role) == IF role = "FE" THEN "BE" ELSE "FE"
PortFields(role) == IF role = "FE" THEN FePortFields \cup {"meta_dir"} ELSE BePortFields
Bookkeeping(role) ==
    IF role = "FE" THEN {"fe_process_pid", "fe_process_command", "fe_install_dir"}
    ELSE {"be_process_pid", "be_process_command", "be_install_dir"}

\* what the role's config file assigns, None for a key it does not assign
Assigned(role) == parse_config_content(role, conf[role].lines, DefaultConfig, None)

\* the bookkeeping of the role in record c names the running process of the role
Bookkept(c, role) ==
    \E p \in live[role] :
        /\ c[CHOOSE k \in Bookkeeping(role) : k \in {"fe_process_pid", "be_process_pid"}]
              = Some(p.pid)
        /\ c[CHOOSE k \in Bookkeeping(role) : k \in {"fe_process_command",
                                                     "be_process_command"}]
              = Some(p.command)
        /\ c[CHOOSE k \in Bookkeeping(role) : k \in {"fe_install_dir", "be_install_dir"}]
              = Some(p.doris_home)

\* detect_mixed_deployment is about to act on a record of this role, both roles up
MixedOn(role) ==
    /\ out'.op = "detect_mixed_deployment"
    /\ \A r \in Roles : live[r] # None
    /\ cfg.environment = role

Finished == pc \in {"Ok", "ProcessNotFound"}
Ran(i) == Len(ran) >= i
Empty(i) == cmds[i] = <<>>

\* command i was run and gave no pid: it failed, printed nothing, or printed a
\* first line its pattern does not match
NoPid(i) ==
    \/ cmds[i] = "err"
    \/ cmds[i] = <<>>
    \/ cmds[i][1] \notin
          (IF i = 1 THEN {<<W("1"), W("DorisFE")>>}
           ELSE {<<W("root"), W("1"), W("DorisFE")>>, <<W("root"), W("2x")>>})

\* the commands run are the first ones of the array, in its order
InOrder == ran = SubSeq(FeCommands, 1, Len(ran))

\* C5 as stated: the patterns run in the order A, B, C; B is run exactly when
\* A printed nothing, C exactly when A and B printed nothing, and
\* ProcessNotFound is reported only if all three printed nothing
C5_NextIffEmpty ==
    Finished
        => /\ InOrder
           /\ Ran(2) <=> Empty(1)
           /\ Ran(3) <=> (Empty(1) /\ Empty(2))
           /\ pc = "ProcessNotFound" => (Empty(1) /\ Empty(2) /\ Empty(3))

\* C5 amended: B is run exactly when A gave no pid, C exactly when neither A
\* nor B gave one, and ProcessNotFound is reported exactly when none of the
\* three gave one
C5_NextIffNoPid ==
    Finished
        => /\ InOrder
           /\ Ran(2) <=> NoPid(1)
           /\ Ran(3) <=> (NoPid(1) /\ NoPid(2))
           /\ pc = "ProcessNotFound" <=> (NoPid(1) /\ NoPid(2) /\ NoPid(3))
           /\ pc = "Ok" => found = Some(IF cmds[Len(ran)][1] = <<W("root"), W("2x")>>
                                        THEN 2 ELSE 1)

\* C5 happens: A printed nothing, B a line without a pid, and C found it
C5_Witness ==
    /\ pc = "Ok" /\ found = Some(1)
    /\ ran = FeCommands
    /\ Empty(1) /\ ~Empty(2) /\ cmds[2] # "err"

(* ------------------------- the role config parser ------------------------ *)

\* the port numbers the lines of the model spell
SamplePorts == {8030, 9030}

\* the uncommented lines of the file that assign key k
Assignments(k) == {i \in DOMAIN content : content[i].kind = "kv" /\ content[i].key = k}

\* the port numbers the file assigns to key k
AssignedPorts(k) ==
    {n \in SamplePorts :
        \E i \in Assignments(k) : content[i].val \in {Chars(n), Quoted(Chars(n))}}

\* C6: the parser populates exactly the port keys of the role the file assigns,
\* with the numbers of the file, and leaves every other port field absent
C6_PartialInput ==
    out.op = "parse_config_internal"
        => /\ \A k \in get_env_config_items(penv) :
                  /\ Assignments(k) = {} => cfg[k] = None
                  /\ AssignedPorts(k) # {} => cfg[k] \in {Some(n) : n \in AssignedPorts(k)}
                  /\ cfg[k] # Some(0)
           /\ \A k \in (FePortFields \cup BePortFields) \ get_env_config_items(penv) :
                  cfg[k] = None

\* C6 happens: a Frontend file assigning two of the five port keys was parsed
C6_Witness ==
    /\ out.op = "parse_config_internal" /\ penv = "FE"
    /\ {k \in FePortFields : Assignments(k) # {}} = {"http_port", "query_port"}
    /\ cfg.http_port = Some(8030) /\ cfg.query_port = Some(9030)
    /\ \A k \in FePortFields \ {"http_port", "query_port"} : cfg[k] = None

(* ----------------------------- the reconciler ---------------------------- *)

\* a persisted text without the timestamp of the last detection
StripTimestamp(f) ==
    [f EXCEPT !.doc.process = {[p EXCEPT !.last_detected = None] : p \in f.doc.process}]

\* no write the last operation attempted failed
NoWriteFailed(o) ==
    /\ \A i \in DOMAIN o.persisted : o.persisted[i] = "Success"
    /\ "Failed to save migrated config" \notin o.warns

\* C2: load_config run twice in a row in an unchanged environment leaves the
\* persisted file as the first run left it, the last-detected timestamp aside
C2_Idempotent ==
    [][(out.op = "load_config" /\ NoWriteFailed(out) /\ home_dir
            /\ out'.op = "load_config" /\ NoWriteFailed(out'))
           => StripTimestamp(file') = StripTimestamp(file)]_vars

\* the process bookkeeping of a record is cleared
RecordCleared(c) == \A k \in ProcessFields : c[k] = None

\* the process bookkeeping of the persisted file is cleared
FileCleared(f) ==
    /\ f.kind = "text"
    /\ f.doc.process = Some(EmptyProcessInfo)
    /\ \A sec \in f.doc.fe \cup f.doc.be :
           sec.process_pid = None /\ sec.process_command = None

\* the persisted record names a process, and no role process is running
StalePid ==
    /\ \A r \in Roles : live[r] = None
    /\ \E lp \in {load_persisted_config(file, home_dir, "ok")} :
           lp.res = "ok" /\ IsSome(lp.cfg.process_pid)

\* every write of the last operation succeeded, and there was one
AllWritten(o) ==
    /\ o.persisted # <<>>
    /\ \A i \in DOMAIN o.persisted : o.persisted[i] = "Success"

\* C3 as stated: from a persisted record with a dead pid and no role process
\* detectable, both the returned record and the persisted file come out with
\* the process bookkeeping cleared
C3_ClearsRecordAndFile ==
    [][(StalePid /\ out'.op = "load_config")
           => (RecordCleared(cfg') /\ FileCleared(file'))]_vars

\* C3 amended: the returned record is cleared in every case, the persisted
\* file whenever the write of the cleaned record succeeds
C3_ClearsRecord ==
    [][(StalePid /\ out'.op = "load_config")
           => /\ RecordCleared(cfg')
              /\ out'.path \in {"clean", "clean+fallback"}
              /\ AllWritten(out') => FileCleared(file')]_vars

\* C3 happens: a stale pid was cleaned and the cleaned record written
C3_Witness ==
    /\ out.op = "load_config" /\ out.path = "clean"
    /\ AllWritten(out)
    /\ RecordCleared(cfg) /\ FileCleared(file)
    /\ cfg.environment = "BE"

\* C10: load_config returns an error exactly when the home directory cannot be
\* determined
C10_ErrIffNoHome == out.op = "load_config" => (out.res = "err" <=> ~home_dir)

(* --------------------------- mixed deployments --------------------------- *)

\* a Frontend process and a Backend process are both detected
BothDetected == IsSome(live["FE"]) /\ IsSome(live["BE"])

\* C11: after a load_config run in which both a Frontend and a Backend process
\* are detected, the returned record has environment Mixed, fe_process_pid the
\* detected Frontend pid and be_process_pid the detected Backend pid
C11_MixedStatus ==
    (out.op = "load_config" /\ BothDetected)
        => /\ cfg.environment = "Mixed"
           /\ cfg.fe_process_pid = Some(Get(live["FE"]).pid)
           /\ cfg.be_process_pid = Some(Get(live["BE"]).pid)

(* --------------------------- the live-pid accessor ----------------------- *)

\* C12: get_valid_pid returns Some(p) only when the record's process_pid is p
\* and the liveness probe for p succeeds at the time of the call, and None when
\* process_pid is absent, the probe fails or the probe cannot be run
C12_LivePid ==
    out.op = "get_valid_pid"
        => /\ \A p \in found :
                  /\ cfg.process_pid = Some(p)
                  /\ out.path = "success"
                  /\ p \in AlivePids(live)
           /\ (cfg.process_pid = None \/ out.path \in {"failure", "err"})
                  => found = None

\* C12 happens: a record naming a running process is asked for its pid and
\* gives it
C12_Witness ==
    /\ out.op = "get_valid_pid"
    /\ IsSome(cfg.process_pid)
    /\ found = cfg.process_pid
    /\ out.path = "success"

(* ---------------------------- the schema ladder -------------------------- *)

\* the persisted file is a text that is valid in the current (organized) schema
ValidInCurrentSchema == file.kind = "text" /\ ParsesAsOrganized(file.doc)

\* C13: load_persisted_config tries the current schema first, so a file that is
\* valid in the current schema is always decoded by the current-schema parser
C13_CurrentSchemaFirst ==
    [][(ValidInCurrentSchema /\ home_dir /\ out'.op = "load_persisted_config")
           => out'.decoder = "from_organized_config"]_vars

(* ------------------------ permissive numeric parsing --------------------- *)

\* the values of the model's lines that are not a decimal integer in 0..65535:
\* above 65535, non-numeric, negative
MalformedValues == {Chars(70000), <<"a">>, <<"-", "1">>}

\* line l assigns a malformed value to a port key the role's parser recognizes
MalformedPortLine(l) ==
    l.kind = "kv" /\ l.key \in get_env_config_items(penv) /\ l.val \in MalformedValues

WellFormedLine(l) == ~MalformedPortLine(l)

\* the file holds a malformed port line
HasMalformedLine == \E i \in DOMAIN content : MalformedPortLine(content[i])

\* C14: when the value of a recognized port key is not a decimal integer in
\* 0..65535, parsing the file still succeeds, the port field is left absent
\* (no other line assigning it), and every field comes out as the other lines
\* of the file populate it, as if the malformed line were not there
C14_PermissiveNumbers ==
    (out.op = "parse_config_internal" /\ HasMalformedLine)
        => /\ out.res = "ok"
           /\ \A k \in get_env_config_items(penv) :
                  (\A i \in Assignments(k) : content[i].val \in MalformedValues)
                      => cfg[k] = None
           /\ cfg = parse_config_internal(penv, "/opt/selectdb", "/opt/jdk",
                                          ConfOf(SelectSeq(content, WellFormedLine))).cfg

\* C14 happens: a Frontend file with a port above 65535 on one line and a good
\* port on the other was parsed
C14_Witness ==
    /\ out.op = "parse_config_internal" /\ out.res = "ok" /\ penv = "FE"
    /\ content = << Line("kv", "http_port", Chars(70000)),
                    Line("kv", "query_port", Quoted(Chars(9030))) >>
    /\ cfg.http_port = None
    /\ cfg.query_port = Some(9030)

(* ----------------------- the log-directory placeholder ------------------- *)

\* the lines of the file that assign LOG_DIR
LogDirLines == {i \in DOMAIN content : content[i].kind = "kv" /\ content[i].key = "LOG_DIR"}

\* the value of the last of them
LastLogDir == content[CHOOSE i \in LogDirLines : \A j \in LogDirLines : j <= i].val

\* C15: for both roles the stored log_dir is the log-directory value of the file
\* with every ${DORIS_HOME} replaced by the resolved install directory, and the
\* value itself when it holds no placeholder
C15_LogDirPlaceholder ==
    (out.op = "parse_config_internal" /\ LogDirLines # {})
        => cfg.log_dir = Str(ReplaceDorisHome(LastLogDir, cfg.install_dir))

(* ------------------------ the background collector ----------------------- *)

\* the results of an attempt after which the loop makes no other
FinalResults == {"Ok", "MySQLAccessDenied", "ConfigError"}

\* C16: collect_cluster_info_with_retry always terminates (each turn of its
\* loop ends the loop or counts one more attempt, and the attempts are bounded),
\* makes at most 3 attempts, and makes no attempt after a successful one or
\* after one that failed with an access-denied or a configuration error
C16_BoundedRetry ==
    [][/\ bg'.attempts <= MAX_RETRIES
       /\ bg.last \in FinalResults => bg'.attempts = bg.attempts
       /\ (bg.pc = "loop" /\ bg' # bg)
              => (bg'.pc = "done" \/ bg'.attempts = bg.attempts + 1)]_vars

\* C16 happens: the first attempt was refused by the server, and the collector
\* stopped after it
C16_Witness ==
    /\ bg.pc = "done"
    /\ bg.attempts = 1
    /\ bg.cause = "access_denied"
    /\ bg.last \in FinalResults

\* a step of the background thread
BackgroundStep == bg.pc \in {"spawned", "loop"} /\ bg' # bg

\* C17: in every interleaving the background thread works on its cloned record
\* only: none of its steps changes the main thread's record or writes the
\* persisted configuration file
C17_BackgroundIsolated ==
    [][BackgroundStep => (cfg' = cfg /\ file' = file)]_vars

\* C18: an attempt that fails for a transient reason (the query cannot connect
\* or fails, access denied aside) with fewer than 3 attempts made and the
\* timeout not elapsed is followed by the delay and another attempt
C18_TransientRetried ==
    (/\ bg.cause \in {"cannot_connect", "query_failed"}
     /\ bg.attempts < MAX_RETRIES
     /\ bg.elapsed < TIMEOUT_SECS)
        => bg.pc = "loop"

(* -------------------------- the freshness decision ----------------------- *)

\* the record load_config starts from: what load_persisted_config decodes from
\* the file, the default record when that fails
PersistedRecord ==
    CHOOSE c \in {IF lp.res = "ok" THEN lp.cfg ELSE DefaultConfig :
                    lp \in {load_persisted_config(file, home_dir, "ok")}} : TRUE

\* the snapshot of the process detection: the first process found
Snapshot == Get(detect_current_process(live))

\* the persisted record differs from the snapshot, or its pid is not alive
Outdated(c, p) ==
    \/ c.process_pid # Some(p.pid)
    \/ c.environment # p.environment
    \/ c.install_dir # p.doris_home
    \/ c.jdk_path # p.java_home
    \/ \E pid \in c.process_pid : KillProbe(pid, live, TRUE) # "success"

\* C19: with a process detected, load_config takes the update path if and only
\* if the persisted pid, environment, install_dir or JDK dir differs from the
\* snapshot's or the persisted pid fails the liveness probe, and the keep path
\* otherwise
C19_FreshnessDecision ==
    [][(out'.op = "load_config" /\ IsSome(detect_current_process(live)))
           => /\ out'.path \in {"update", "keep"}
              /\ out'.path = "update" <=> Outdated(PersistedRecord, Snapshot)]_vars

\* C19 happens: a record that agrees with the running process in pid, role,
\* install_dir and JDK dir was kept
C19_Witness ==
    /\ out.op = "load_config" /\ out.path = "keep"
    /\ IsSome(detect_current_process(live))
    /\ cfg.process_pid = Some(Snapshot.pid)
    /\ cfg.environment = Snapshot.environment
    /\ cfg.install_dir = Snapshot.doris_home
    /\ cfg.jdk_path = Snapshot.java_home

(* ------------------------------ the update path -------------------------- *)

\* the last operation was a load_config that took the update path
Updated == out.op = "load_config" /\ out.path = "update"

\* the record agrees with the snapshot, its conf_dir and log_dir re-derived
FollowsSnapshot(c, p) ==
    /\ c.process_pid = Some(p.pid)
    /\ c.process_command = Some(p.command)
    /\ c.install_dir = p.doris_home
    /\ c.jdk_path = p.java_home
    /\ c.conf_dir = Join(c.install_dir, "conf")
    /\ c.log_dir = Join(c.install_dir, "log")

\* the persisted file is the returned record as persist_config writes it
FileIsReturnedRecord == file = TextFile(to_organized_config(cfg))

Kept == out.op = "load_config" /\ out.path = "keep"

\* C21: on the keep path, whenever the mixed-deployment detector changes a
\* field of the record, the changed record is persisted: after load_config
\* returns, the persisted file equals the returned record
C21_KeepPersistsChange ==
    (Kept /\ cfg # PersistedRecord) => FileIsReturnedRecord

(* --------------------------- no process detectable ----------------------- *)

\* no role process is detected
NoProcess == detect_current_process(live) = None

\* the configuration a stopped process leaves accurate: paths, ports, network
\* fields and operational settings
ConfigurationFields ==
    {"install_dir", "conf_dir", "log_dir", "jdk_path", "output_dir",
     "priority_networks", "meta_service_endpoint",
     "timeout_seconds", "no_progress_animation"}
      \cup FePortFields \cup BePortFields

\* C22: with no role process detectable, for every persisted record (one whose
\* environment is Unknown included) the record load_config returns and the
\* file it persists keep the persisted paths, ports, network fields and
\* operational settings; the last-resort environment detection changes
\* nothing but the environment field
C22_NoProcessPreserves ==
    [][(NoProcess /\ out'.op = "load_config")
           => \A k \in ConfigurationFields :
                  /\ cfg'[k] = PersistedRecord[k]
                  /\ AllWritten(out') => PersistedRecord'[k] = PersistedRecord[k]]_vars

(* ------------------------------- the JDK fix ----------------------------- *)

\* the last operation was the fix flow, and it wrote the record with the
\* user's JDK path
FixPersisted == out.op = "persist_updated_config" /\ out.persisted = <<"Success">>

\* C29: after the user sets a JDK path through the fix flow and it is
\* persisted, a later load_config run with the live environment unchanged
\* returns a record, and leaves a persisted file, whose JDK path is still the
\* user-chosen value (stated on the first such run)
C29_JdkFixSurvives ==
    [][(FixPersisted /\ out'.op = "load_config")
           => /\ cfg'.jdk_path = cfg.jdk_path
              /\ PersistedRecord'.jdk_path = cfg.jdk_path]_vars

(* ----------------------------- the detection order ----------------------- *)

\* C23: detect_current_process returns the Backend snapshot whenever a Backend
\* process is detected, whether or not a Frontend is running too, the Frontend
\* snapshot only when no Backend is detected, and ProcessNotFound only when
\* neither is
C23_DetectionOrder ==
    out.op = "detect_current_process"
        => /\ IsSome(live["BE"]) => found = live["BE"]
           /\ found = live["FE"] => live["BE"] = None
           /\ (live["BE"] = None /\ IsSome(live["FE"])) => found = live["FE"]
           /\ out.res = "ProcessNotFound" <=> (live["BE"] = None /\ live["FE"] = None)
           /\ out.res = "ProcessNotFound" <=> found = None

\* C23 happens: with a Frontend and a Backend both running, the snapshot
\* returned is the Backend's
C23_Witness ==
    /\ out.op = "detect_current_process" /\ out.res = "ok"
    /\ BothDetected
    /\ found = live["BE"]
    /\ Get(found).environment = "BE"

(* -------------------------------- the tie-break -------------------------- *)

\* the listing the locator reads for the role of the last call
ListingOf(role) == IF role = "BE" THEN cmds[4] ELSE cmds[2]

\* the lines of a listing whose user column is the current user (root)
OwnLines(o) == {i \in 1..Len(o) : o[i][1] = W("root")}

\* the pid the tie-break policy picks from a listing
PreferredPid(o) ==
    DecimalValue(o[IF OwnLines(o) # {}
                   THEN CHOOSE i \in OwnLines(o) : \A j \in OwnLines(o) : i <= j
                   ELSE 1][2])

\* C24: for either role, when the process listing has several matching lines,
\* the locator returns the pid of the first line whose user column equals the
\* current user if there is such a line, and the pid of the first line otherwise
C24_TieBreak ==
    \A role \in Roles :
        (/\ out.op = "get_pid_by_env" /\ out.path = role
         /\ Len(ListingOf(role)) > 1)
            => found = Some(PreferredPid(ListingOf(role)))

(* ------------------------ independent failure domains -------------------- *)

\* a role process is detected and the config file of its role cannot be read
ConfUnreadable == ~NoProcess /\ conf[Snapshot.environment].state # "ok"

\* C25: when a role process is detected but its config file is missing or
\* unreadable, load_config still returns a record whose process_pid,
\* process_command and install_dir are the snapshot's, and that role's port
\* fields in the record are empty
C25_IndependentFailure ==
    (out.op = "load_config" /\ ConfUnreadable)
        => /\ cfg.process_pid = Some(Snapshot.pid)
           /\ cfg.process_command = Some(Snapshot.command)
           /\ cfg.install_dir = Snapshot.doris_home
           /\ \A k \in get_env_config_items(Snapshot.environment) : cfg[k] = None

(* ----------------------------- a single role ----------------------------- *)

\* exactly one of the two roles is detected
SingleRole == IsSome(live["FE"]) # IsSome(live["BE"])

\* C26: when exactly one role is detected, detect_mixed_deployment reports
\* not-mixed and leaves every field of the record as it was
C26_SingleRoleNoOp ==
    [][(out'.op = "detect_mixed_deployment" /\ SingleRole)
           => /\ out'.res = "ok"
              /\ out'.path = "not mixed"
              /\ cfg' = cfg]_vars

\* C26 happens: the detector ran on a loaded record of one role with only the
\* other role running, and the record has none of that role's bookkeeping
C26_Witness ==
    /\ out.op = "detect_mixed_deployment" /\ out.path = "not mixed"
    /\ SingleRole
    /\ cfg.environment = "BE" /\ IsSome(cfg.process_pid)
    /\ IsSome(live["FE"])
    /\ \A k \in Bookkeeping("FE") : cfg[k] = None

(* --------------------------- the environment block ----------------------- *)

\* the values the readable environment block gives to a key
ValuesOf(key) ==
    {cmds[1].lines[i].val : i \in {j \in 1..Len(cmds[1].lines) : cmds[1].lines[j].key = key}}

\* C27: when the environment block of the detected process is readable and
\* holds a DORIS_HOME line and a JAVA_HOME line, in any order and at any line
\* position, the snapshot's install directory is the DORIS_HOME value and its
\* JDK directory the JAVA_HOME value; the default JDK path is used only when
\* the block has no JAVA_HOME
C27_EnvironRead ==
    (/\ out.op = "get_paths_by_pid_with_fallback"
     /\ cmds[1].ok /\ ValuesOf("DORIS_HOME") # {})
        => /\ ValuesOf("JAVA_HOME") # {}
               => /\ Some(Get(found).doris_home) = ValuesOf("DORIS_HOME")
                  /\ Some(Get(found).java_home) = ValuesOf("JAVA_HOME")
           /\ Get(found).java_home = "/opt/jdk" => ValuesOf("JAVA_HOME") = {}

(* ------------------------------ the mixed accessor ----------------------- *)

\* C28: after any sequence of role starts and stops, is_mixed_deployment
\* returns true if and only if a Frontend and a Backend process are both
\* detected at the time of the call; it returns false once one of two roles
\* that ran together has stopped
C28_MixedAccessor ==
    out.op = "is_mixed_deployment" => (out.path = "mixed" <=> BothDetected)

(* ------------------------------- C30 ------------------------------------ *)

\* the reports of the input tables whose fetch succeeded, in input order
SucceededReports ==
    LET ok == SelectSeq([i \in 1..Len(pool.idents) |-> i],
                        LAMBDA i : \E k \in DOMAIN pool.fetched[i] : pool.fetched[i][k].ok)
    IN  [k \in 1..Len(ok) |-> [table |-> pool.idents[ok[k]]]]

\* no input table is ever fetched twice; on return every input table has
\* been fetched once, every worker has left its loop and the returned list is
\* the reports of the tables whose fetch succeeded, in input order
PoolSafety ==
    /\ \A i \in DOMAIN pool.fetched : Len(pool.fetched[i]) <= 1
    /\ pool.pc = "returned" =>
           /\ \A i \in DOMAIN pool.fetched : Len(pool.fetched[i]) = 1
           /\ \A w \in DOMAIN pool.workers : pool.workers[w].pc = "exit"
           /\ pool.reports = SucceededReports

\* C30: for any number of workers and any interleaving, collect_many fetches
\* every input table exactly once, by exactly one worker, all workers
\* terminate and the call returns, and the returned list is the reports of
\* the tables whose fetch succeeded, in input order
C30_WorkerPool ==
    /\ []PoolSafety
    /\ (pool.pc = "running") ~> (pool.pc = "returned")

\* a call on two tables has returned one report: two workers fetched one
\* table each, and the fetch of the first table failed
C30_Witness ==
    /\ pool.pc = "returned"
    /\ Len(pool.idents) = 2
    /\ Len(pool.workers) = 2
    /\ {pool.fetched[i][1].by : i \in 1..2} = {1, 2}
    /\ ~pool.fetched[1][1].ok
    /\ pool.reports = <<[table |-> "db.t2"]>>

====
